---- MODULE Spec2Model ----
(***************************************************************************)
(* Verification model of the elefren Mastodon client:                      *)
(*   - the streaming event decoder (src/src/event_stream.rs, EventReader)  *)
(*   - the Page engine (crate::page, described in spec.md section 4.1)     *)
(***************************************************************************)
EXTENDS Naturals, Integers, Sequences, FiniteSets, TLC

\* ------------------------------------------------------------------ bounds
\* Number of messages the line source delivers (lines and read errors).
MaxReads == 3
\* Number of lines of an accumulator handed to make_event on its own.
MaxFrame == 3
\* Number of messages the line source of the lib.rs reader delivers.
MaxLibReads == 4
\* Pages of the server's collection and items per page.
MaxPages == 3
MaxItems == 2
\* HTTP requests one caller issues.
MaxRequests == 2
\* Segments of one Link header.
MaxSegs == 2

VARIABLES
    pc,         \* "idle": between pulls; "loop": inside EventReader::next
    lines,      \* the local accumulator "lines" of EventReader::next
    closed,     \* the underlying source has signalled end-of-input
    delivered,  \* history: every read_message result of the open source
    out,        \* history: the events returned by the pulls, in order
    attempt,    \* history: argument and result of the last make_event call
    spun        \* history: the current pull has read at end-of-input

streamVars == <<pc, lines, closed, delivered, out, attempt, spun>>

VARIABLES
    chain,      \* server: the number of items of each page of the collection
    failAt,     \* server: the page whose fetch fails (0: none)
    cur,        \* history: the server page the held Page was built from (0: none)
    page,       \* the Page the caller holds
    mode,       \* "none": no page yet; "page": holds a Page; "iter": iterating
    requests,   \* history: the URLs requested, in order
    response,   \* history: the last response a Page was built from
    lastOp,     \* history: the last Page operation called
    result,     \* the value the last Page operation returned
    iter,       \* the flattening iterator: [buf, next, done]
    yielded     \* history: the items the flattening iterator yielded

pageVars == <<chain, failAt, cur, page, mode, requests, response, lastOp, result, iter, yielded>>

VARIABLES
    call,       \* response decoding: the function called, the requested type, the response
    tapped,     \* the bytes the Tap reader of deserialise has recorded
    ret         \* what the call returned

decodeVars == <<call, tapped, ret>>

VARIABLES
    libAttempt  \* history: argument and result of the last call of lib.rs make_event

libVars == <<libAttempt>>

\* ----------------------------------------------------------- text helpers
Char(s, i) == SubSeq(s, i, i)

\* char::is_whitespace restricted to the ASCII characters of the inputs
IsWs(c) == c \in {" ", "\t", "\n", "\r", "\f"}

RECURSIVE TrimStart(_)
TrimStart(s) ==
    IF Len(s) > 0 /\ IsWs(Char(s, 1)) THEN TrimStart(SubSeq(s, 2, Len(s))) ELSE s

RECURSIVE TrimEnd(_)
TrimEnd(s) ==
    IF Len(s) > 0 /\ IsWs(Char(s, Len(s))) THEN TrimEnd(SubSeq(s, 1, Len(s) - 1)) ELSE s

\* str::trim
Trim(s) == TrimEnd(TrimStart(s))

\* str::starts_with
StartsWith(s, p) == Len(s) >= Len(p) /\ SubSeq(s, 1, Len(p)) = p

\* &s[n..]
SliceFrom(s, n) == SubSeq(s, n + 1, Len(s))

\* lines.iter().find(|line| line.starts_with(p)): index of the first match, 0 if none
FindFirst(ls, p) ==
    IF \E i \in 1..Len(ls) : StartsWith(ls[i], p)
    THEN CHOOSE i \in 1..Len(ls) :
            /\ StartsWith(ls[i], p)
            /\ \A j \in 1..(i - 1) : ~StartsWith(ls[j], p)
    ELSE 0

Last(q) == q[Len(q)]

\* ------------------------------------------------- JSON (serde_json) decode
\* A flat JSON object whose member values are strings, unsigned integers or
\* null, with the escapes \" \\ \/ inside strings.  Result: [ok, fields],
\* fields a sequence of [key, isnull, isstr, val].
JsonFail == [ok |-> FALSE, fields |-> <<>>]

Token(t, v) == [t |-> t, v |-> v]

Digits == {"0", "1", "2", "3", "4", "5", "6", "7", "8", "9"}

RECURSIVE DigitsEnd(_, _)
\* the last position of the run of digits of s that starts at i
DigitsEnd(s, i) ==
    IF i + 1 <= Len(s) /\ Char(s, i + 1) \in Digits THEN DigitsEnd(s, i + 1) ELSE i

RECURSIVE Tokens(_, _, _, _, _)
\* the tokens of s from position i on: punctuation, strings (with the escapes
\* \" \\ \/), unsigned integers, null; a token "bad" ends the sequence where the text is none of
\* these.  instr: inside a string whose characters so far are str.
Tokens(s, i, instr, str, acc) ==
    IF i > Len(s) THEN (IF instr THEN Append(acc, Token("bad", "")) ELSE acc)
    ELSE IF instr
    THEN IF Char(s, i) = "\""
         THEN Tokens(s, i + 1, FALSE, "", Append(acc, Token("str", str)))
         ELSE IF Char(s, i) # "\\"
         THEN Tokens(s, i + 1, TRUE, str \o Char(s, i), acc)
         ELSE IF i + 1 <= Len(s) /\ Char(s, i + 1) \in {"\"", "\\", "/"}
         THEN Tokens(s, i + 2, TRUE, str \o Char(s, i + 1), acc)
         ELSE Append(acc, Token("bad", ""))
    ELSE IF Char(s, i) \in {" ", "\t", "\n", "\r"}
    THEN Tokens(s, i + 1, FALSE, "", acc)
    ELSE IF Char(s, i) \in {"{", "}", ":", ","}
    THEN Tokens(s, i + 1, FALSE, "", Append(acc, Token(Char(s, i), "")))
    ELSE IF Char(s, i) = "\""
    THEN Tokens(s, i + 1, TRUE, "", acc)
    ELSE IF i + 3 <= Len(s) /\ SubSeq(s, i, i + 3) = "null"
    THEN Tokens(s, i + 4, FALSE, "", Append(acc, Token("null", "")))
    ELSE IF Char(s, i) \in Digits
    THEN Tokens(s, DigitsEnd(s, i) + 1, FALSE, "",
                Append(acc, Token("num", SubSeq(s, i, DigitsEnd(s, i)))))
    ELSE Append(acc, Token("bad", ""))

\* the members between the braces: key : value groups separated by commas
MembersOk(m) ==
    \/ m = <<>>
    \/ /\ Len(m) % 4 = 3
       /\ \A n \in 1..Len(m) :
             CASE n % 4 = 1 -> m[n].t = "str"
               [] n % 4 = 2 -> m[n].t = ":"
               [] n % 4 = 3 -> m[n].t \in {"str", "null", "num"}
               [] OTHER     -> m[n].t = ","

MembersOf(m) ==
    [g \in 1..((Len(m) + 1) \div 4) |->
        [key |-> m[4 * g - 3].v, isnull |-> m[4 * g - 1].t = "null",
         isstr |-> m[4 * g - 1].t = "str", val |-> m[4 * g - 1].v]]

ObjectOf(ts) ==
    IF Len(ts) >= 2 /\ ts[1].t = "{" /\ ts[Len(ts)].t = "}" /\ MembersOk(SubSeq(ts, 2, Len(ts) - 1))
    THEN [ok |-> TRUE, fields |-> MembersOf(SubSeq(ts, 2, Len(ts) - 1))]
    ELSE JsonFail

JsonObject(s) == ObjectOf(Tokens(s, 1, FALSE, "", <<>>))

FieldCount(fs, k) == Cardinality({i \in 1..Len(fs) : fs[i].key = k})
Field(fs, k) == fs[CHOOSE i \in 1..Len(fs) : fs[i].key = k]

NoPayload == [some |-> FALSE, val |-> ""]
SomePayload(v) == [some |-> TRUE, val |-> v]

\* DecodeMessage with a required payload field (payload: String)
DecodeMessage_PayloadRequired(s) ==
    LET o == JsonObject(s) IN
    IF ~o.ok \/ FieldCount(o.fields, "event") # 1 \/ FieldCount(o.fields, "payload") # 1
    THEN [ok |-> FALSE, event |-> "", payload |-> NoPayload]
    ELSE IF ~Field(o.fields, "event").isstr \/ ~Field(o.fields, "payload").isstr
    THEN [ok |-> FALSE, event |-> "", payload |-> NoPayload]
    ELSE [ok |-> TRUE,
          event |-> Field(o.fields, "event").val,
          payload |-> SomePayload(Field(o.fields, "payload").val)]

\* serde_json::from_str::<Message>: event: String, payload: Option<String>
DecodeMessage(s) ==
    LET o == JsonObject(s) IN
    IF ~o.ok \/ FieldCount(o.fields, "event") # 1 \/ FieldCount(o.fields, "payload") > 1
    THEN [ok |-> FALSE, event |-> "", payload |-> NoPayload]
    ELSE IF ~Field(o.fields, "event").isstr
    THEN [ok |-> FALSE, event |-> "", payload |-> NoPayload]
    ELSE IF FieldCount(o.fields, "payload") = 1 /\ ~Field(o.fields, "payload").isnull
            /\ ~Field(o.fields, "payload").isstr
    THEN [ok |-> FALSE, event |-> "", payload |-> NoPayload]
    ELSE [ok |-> TRUE,
          event |-> Field(o.fields, "event").val,
          payload |-> IF FieldCount(o.fields, "payload") = 0 \/ Field(o.fields, "payload").isnull
                      THEN NoPayload
                      ELSE SomePayload(Field(o.fields, "payload").val)]

\* An entity with the required string fields req: decoded to their values.
DecodeEntity(s, req) ==
    LET o == JsonObject(s) IN
    IF o.ok /\ \A n \in 1..Len(req) : FieldCount(o.fields, req[n]) = 1 /\ Field(o.fields, req[n]).isstr
    THEN [ok |-> TRUE, body |-> [n \in 1..Len(req) |-> Field(o.fields, req[n]).val]]
    ELSE [ok |-> FALSE, body |-> <<>>]

\* serde_json::from_str::<Status> / ::<Notification>
DecodeStatus(s) == DecodeEntity(s, <<"id", "uri">>)
DecodeNotification(s) == DecodeEntity(s, <<"id", "type">>)

\* ------------------------------------------------------------- make_event
OkEvent(t, b) == [ok |-> TRUE, type |-> t, body |-> b, err |-> ""]
ErrEvent(e) == [ok |-> FALSE, type |-> "", body |-> <<>>, err |-> e]

\* MatchEvent with delete refusing an empty id
MatchEvent_DeleteValidates(event, data) ==
    CASE event = "notification" ->
            IF ~data.some THEN ErrEvent("Missing data line for notification")
            ELSE IF DecodeNotification(data.val).ok
                 THEN OkEvent("Notification", DecodeNotification(data.val).body)
                 ELSE ErrEvent("Serde")
      [] event = "update" ->
            IF ~data.some THEN ErrEvent("Missing data line for update")
            ELSE IF DecodeStatus(data.val).ok
                 THEN OkEvent("Update", DecodeStatus(data.val).body)
                 ELSE ErrEvent("Serde")
      [] event = "delete" ->
            IF ~data.some THEN ErrEvent("Missing data line for delete")
            ELSE IF data.val = "" THEN ErrEvent("Serde")
            ELSE OkEvent("Delete", <<data.val>>)
      [] event = "filters_changed" -> OkEvent("FiltersChanged", <<>>)
      [] OTHER -> ErrEvent("Unknown event")

\* MatchEvent with delete accepting a missing payload as the empty id
MatchEvent_DeleteNoData(event, data) ==
    CASE event = "notification" ->
            IF ~data.some THEN ErrEvent("Missing data line for notification")
            ELSE IF DecodeNotification(data.val).ok
                 THEN OkEvent("Notification", DecodeNotification(data.val).body)
                 ELSE ErrEvent("Serde")
      [] event = "update" ->
            IF ~data.some THEN ErrEvent("Missing data line for update")
            ELSE IF DecodeStatus(data.val).ok
                 THEN OkEvent("Update", DecodeStatus(data.val).body)
                 ELSE ErrEvent("Serde")
      [] event = "delete" -> OkEvent("Delete", <<data.val>>)
      [] event = "filters_changed" -> OkEvent("FiltersChanged", <<>>)
      [] OTHER -> ErrEvent("Unknown event")

\* the match on the event name of make_event
MatchEvent(event, data) ==
    CASE event = "notification" ->
            IF ~data.some THEN ErrEvent("Missing data line for notification")
            ELSE IF DecodeNotification(data.val).ok
                 THEN OkEvent("Notification", DecodeNotification(data.val).body)
                 ELSE ErrEvent("Serde")
      [] event = "update" ->
            IF ~data.some THEN ErrEvent("Missing data line for update")
            ELSE IF DecodeStatus(data.val).ok
                 THEN OkEvent("Update", DecodeStatus(data.val).body)
                 ELSE ErrEvent("Serde")
      [] event = "delete" ->
            IF ~data.some THEN ErrEvent("Missing data line for delete")
            ELSE OkEvent("Delete", <<data.val>>)
      [] event = "filters_changed" -> OkEvent("FiltersChanged", <<>>)
      [] OTHER -> ErrEvent("Unknown event")

\* make_event that takes the last "event:" and the last "data:" line
make_event_LastWins(ls) ==
    LET es == {i \in 1..Len(ls) : StartsWith(ls[i], "event:")}
        ds == {i \in 1..Len(ls) : StartsWith(ls[i], "data:")}
    IN IF es # {}
       THEN MatchEvent(Trim(SliceFrom(ls[CHOOSE i \in es : \A j \in es : j <= i], 6)),
                       IF ds # {}
                       THEN SomePayload(Trim(SliceFrom(ls[CHOOSE i \in ds : \A j \in ds : j <= i], 5)))
                       ELSE NoPayload)
       ELSE LET m == DecodeMessage(ls[1]) IN
            IF m.ok THEN MatchEvent(m.event, m.payload) ELSE ErrEvent("Serde")

\* make_event that prefers a JSON envelope in the first line
make_event_JsonFirst(ls) ==
    LET e == FindFirst(ls, "event:")
        m == DecodeMessage(ls[1])
    IN IF e # 0 /\ ~m.ok
       THEN LET d == FindFirst(ls, "data:") IN
            MatchEvent(Trim(SliceFrom(ls[e], 6)),
                       IF d # 0 THEN SomePayload(Trim(SliceFrom(ls[d], 5))) ELSE NoPayload)
       ELSE IF m.ok THEN MatchEvent(m.event, m.payload) ELSE ErrEvent("Serde")

\* make_event without the trim of the text after "event:"
make_event_NoTrim(ls) ==
    LET e == FindFirst(ls, "event:") IN
    IF e # 0
    THEN LET d == FindFirst(ls, "data:") IN
         MatchEvent(SliceFrom(ls[e], 6),
                    IF d # 0 THEN SomePayload(Trim(SliceFrom(ls[d], 5))) ELSE NoPayload)
    ELSE LET m == DecodeMessage(ls[1]) IN
         IF m.ok THEN MatchEvent(m.event, m.payload) ELSE ErrEvent("Serde")

\* EventReader::make_event
make_event(ls) ==
    LET e == FindFirst(ls, "event:") IN
    IF e # 0
    THEN LET d == FindFirst(ls, "data:") IN
         MatchEvent(Trim(SliceFrom(ls[e], 6)),
                    IF d # 0 THEN SomePayload(Trim(SliceFrom(ls[d], 5))) ELSE NoPayload)
    ELSE LET m == DecodeMessage(ls[1]) IN
         IF m.ok THEN MatchEvent(m.event, m.payload) ELSE ErrEvent("Serde")

\* ------------------------------------------------- EventReader::next (loop)
\* What the line source can deliver: raw text as read_message returns it
\* (read_line keeps the line terminator).
Messages ==
    { "event: update\n",
      "data: {\"id\":\"1\",\"uri\":\"u\"}\n",
      "event:delete",
      "data:  42 \n",
      "event: notification\n",
      "event: filters_changed\r\n",
      "event: bogus\n",
      "{\"event\":\"filters_changed\"}",
      "{\"event\":\"delete\"}\n",
      ":thump\n",
      " \n" }

OkMsg(t) == [ok |-> TRUE, text |-> t]
\* read_message returned Err
ErrMsg == [ok |-> FALSE, text |-> ""]

\* IsIgnored that skips ":" lines only
IsIgnored_ColonOnly(line) == StartsWith(line, ":")

\* the test that makes the loop skip a line
IsIgnored(line) == StartsWith(line, ":") \/ line = ""

\* LoopBody that drops the accumulated lines on a read error
LoopBody_ErrClears(ls, msg) ==
    IF ~msg.ok THEN [lines |-> <<>>, ret |-> FALSE, val |-> ErrEvent(""), arg |-> <<>>]
    ELSE LET line == Trim(msg.text) IN
         IF IsIgnored(line) THEN [lines |-> ls, ret |-> FALSE, val |-> ErrEvent(""), arg |-> <<>>]
         ELSE LET ls2 == Append(ls, line)
                  r   == make_event(ls2)
              IN IF r.ok THEN [lines |-> <<>>, ret |-> TRUE, val |-> r, arg |-> ls2]
                 ELSE [lines |-> ls2, ret |-> FALSE, val |-> r, arg |-> ls2]

\* LoopBody that returns the event and leaves the lines accumulated
LoopBody_NoClear(ls, msg) ==
    IF ~msg.ok THEN [lines |-> ls, ret |-> FALSE, val |-> ErrEvent(""), arg |-> <<>>]
    ELSE LET line == Trim(msg.text) IN
         IF IsIgnored(line) THEN [lines |-> ls, ret |-> FALSE, val |-> ErrEvent(""), arg |-> <<>>]
         ELSE LET ls2 == Append(ls, line)
                  r   == make_event(ls2)
              IN [lines |-> ls2, ret |-> r.ok, val |-> r, arg |-> ls2]

\* LoopBody that completes a frame only at a blank line
LoopBody_BlankLineFraming(ls, msg) ==
    IF ~msg.ok THEN [lines |-> ls, ret |-> FALSE, val |-> ErrEvent(""), arg |-> <<>>]
    ELSE LET line == Trim(msg.text) IN
         IF line # "" THEN [lines |-> Append(ls, line), ret |-> FALSE, val |-> ErrEvent(""), arg |-> <<>>]
         ELSE IF ls = <<>> THEN [lines |-> ls, ret |-> FALSE, val |-> ErrEvent(""), arg |-> <<>>]
         ELSE IF make_event(ls).ok THEN [lines |-> <<>>, ret |-> TRUE, val |-> make_event(ls), arg |-> ls]
         ELSE [lines |-> ls, ret |-> FALSE, val |-> make_event(ls), arg |-> ls]

\* One iteration of the loop of next() on the read result msg: the
\* accumulator afterwards, whether next() returns, the result of make_event
\* and the lines make_event was called on (none when it was not called).
LoopBody(ls, msg) ==
    IF ~msg.ok THEN [lines |-> ls, ret |-> FALSE, val |-> ErrEvent(""), arg |-> <<>>]
    ELSE LET line == Trim(msg.text) IN
         IF IsIgnored(line) THEN [lines |-> ls, ret |-> FALSE, val |-> ErrEvent(""), arg |-> <<>>]
         ELSE LET ls2 == Append(ls, line)
                  r   == make_event(ls2)
              IN IF r.ok THEN [lines |-> <<>>, ret |-> TRUE, val |-> r, arg |-> ls2]
                 ELSE [lines |-> ls2, ret |-> FALSE, val |-> r, arg |-> ls2]

NoAttempt == [lines |-> <<>>, res |-> ErrEvent("")]

\* the effect of one loop iteration on the decoder's state
Iterate(msg) ==
    LET b == LoopBody(lines, msg) IN
    /\ lines' = b.lines
    /\ pc' = IF b.ret THEN "idle" ELSE "loop"
    /\ out' = IF b.ret THEN Append(out, b.val) ELSE out
    /\ attempt' = IF b.arg # <<>> THEN [lines |-> b.arg, res |-> b.val] ELSE attempt

\* the consumer calls next(): let mut lines = Vec::new()
Pull ==
    /\ pc = "idle"
    /\ pc' = "loop"
    /\ lines' = <<>>
    /\ spun' = FALSE
    /\ UNCHANGED <<closed, delivered, out, attempt>>
    /\ UNCHANGED pageVars
    /\ UNCHANGED decodeVars
    /\ UNCHANGED libVars

\* a loop iteration in which the source delivers a line
ReadLine ==
    /\ pc = "loop" /\ ~closed /\ Len(delivered) < MaxReads
    /\ \E t \in Messages :
          /\ delivered' = Append(delivered, OkMsg(t))
          /\ Iterate(OkMsg(t))
    /\ UNCHANGED <<closed, spun>>
    /\ UNCHANGED pageVars
    /\ UNCHANGED decodeVars
    /\ UNCHANGED libVars

\* a loop iteration in which read_message fails
ReadError ==
    /\ pc = "loop" /\ ~closed /\ Len(delivered) < MaxReads
    /\ delivered' = Append(delivered, ErrMsg)
    /\ Iterate(ErrMsg)
    /\ UNCHANGED <<closed, spun>>
    /\ UNCHANGED pageVars
    /\ UNCHANGED decodeVars
    /\ UNCHANGED libVars

\* the peer ends the input
Close ==
    /\ ~closed
    /\ closed' = TRUE
    /\ UNCHANGED <<pc, lines, delivered, out, attempt, spun>>
    /\ UNCHANGED pageVars
    /\ UNCHANGED decodeVars
    /\ UNCHANGED libVars

\* What read_message returns at end-of-input: read_line reads zero bytes
\* (Ok of the empty string); a closed WebSocket returns Err.
EndOfInput == {OkMsg(""), ErrMsg}

\* a loop iteration at end-of-input
ReadAtEnd ==
    /\ pc = "loop" /\ closed
    /\ \E m \in EndOfInput : Iterate(m)
    /\ spun' = TRUE
    /\ UNCHANGED <<closed, delivered>>
    /\ UNCHANGED pageVars
    /\ UNCHANGED decodeVars
    /\ UNCHANGED libVars

\* Further lines a source can deliver, for make_event taken on its own.
MoreMessages ==
    { "event: Update\n",
      "data: {\"id\":\"2\",\"type\":\"follow\"}\n",
      "data: n/a\n",
      "data:\n",
      "{\"event\":\"delete\",\"payload\":\"7\"}\n",
      "{\"payload\":\"\\\"7\\\"\", \"event\":\"delete\"}",
      "{\"event\":\"update\",\"payload\":\"{}\"}",
      "{\"event\":\"bogus\",\"payload\":null}" }

\* the lines next() pushes: trimmed, neither empty nor a ":" line
FrameLines == {Trim(t) : t \in {m \in Messages \cup MoreMessages : ~IsIgnored(Trim(m))}}

\* the accumulators next() calls make_event on: every shorter prefix failed
Frames ==
    {ls \in UNION {[1..n -> FrameLines] : n \in 1..MaxFrame} :
        \A k \in 1..(Len(ls) - 1) : ~make_event(SubSeq(ls, 1, k)).ok}

\* the call make_event(&lines) of next(), taken on its own
CallMakeEvent ==
    /\ pc = "make_event"
    /\ attempt' = [lines |-> lines, res |-> make_event(lines)]
    /\ pc' = "returned"
    /\ UNCHANGED <<lines, closed, delivered, out, spun>>
    /\ UNCHANGED pageVars
    /\ UNCHANGED decodeVars
    /\ UNCHANGED libVars

\* lib_make_event that hands over the text after "data:" untrimmed
lib_make_event_NoTrim(ls) ==
    LET e == FindFirst(ls, "event:") IN
    IF e = 0 THEN ErrEvent("No event line")
    ELSE LET d == FindFirst(ls, "data:") IN
         MatchEvent(Trim(SliceFrom(ls[e], 6)),
                    IF d # 0 THEN SomePayload(SliceFrom(ls[d], 5)) ELSE NoPayload)

\* lib.rs EventReader::make_event: "event:" framing only
lib_make_event(ls) ==
    LET e == FindFirst(ls, "event:") IN
    IF e = 0 THEN ErrEvent("No event line")
    ELSE LET d == FindFirst(ls, "data:") IN
         MatchEvent(Trim(SliceFrom(ls[e], 6)),
                    IF d # 0 THEN SomePayload(Trim(SliceFrom(ls[d], 5))) ELSE NoPayload)

\* the accumulators lib.rs next() calls make_event on at a blank line: every
\* line pushed since the pull began
LibFrames == UNION {[1..n -> FrameLines] : n \in 1..MaxFrame}

\* the call self.make_event(&lines) of lib.rs next(), taken on its own
CallLibMakeEvent ==
    /\ pc = "lib_make_event"
    /\ libAttempt' = [lines |-> lines, res |-> lib_make_event(lines)]
    /\ pc' = "returned"
    /\ UNCHANGED <<lines, closed, delivered, out, attempt, spun>>
    /\ UNCHANGED pageVars
    /\ UNCHANGED decodeVars

\* ------------------------------------------ lib.rs EventReader::next (loop)
\* What the line source of the lib.rs reader can deliver.
LibMessages ==
    { "event: update\n",
      "data: {\"id\":\"1\",\"uri\":\"u\"}\n",
      "event:delete",
      "event: filters_changed\r\n",
      "{\"event\":\"filters_changed\"}",
      ":thump\n",
      "\n" }

\* LibLoopBody that empties the accumulator after a failed make_event
LibLoopBody_FailDrops(ls, msg) ==
    IF ~msg.ok THEN [lines |-> ls, ret |-> FALSE, val |-> ErrEvent(""), arg |-> <<>>]
    ELSE LET line == Trim(msg.text) IN
         IF StartsWith(line, ":")
         THEN [lines |-> ls, ret |-> FALSE, val |-> ErrEvent(""), arg |-> <<>>]
         ELSE IF line = "" /\ ls # <<>>
         THEN LET r == lib_make_event(ls) IN
              [lines |-> <<>>, ret |-> r.ok, val |-> r, arg |-> ls]
         ELSE [lines |-> Append(ls, line), ret |-> FALSE, val |-> ErrEvent(""), arg |-> <<>>]

\* One iteration of the loop of lib.rs next() on the read result msg: the
\* accumulator afterwards, whether next() returns, the result of make_event
\* and the lines make_event was called on (none when it was not called).
LibLoopBody(ls, msg) ==
    IF ~msg.ok THEN [lines |-> ls, ret |-> FALSE, val |-> ErrEvent(""), arg |-> <<>>]
    ELSE LET line == Trim(msg.text) IN
         IF StartsWith(line, ":")
         THEN [lines |-> ls, ret |-> FALSE, val |-> ErrEvent(""), arg |-> <<>>]
         ELSE IF line = "" /\ ls # <<>>
         THEN LET r == lib_make_event(ls) IN
              IF r.ok THEN [lines |-> <<>>, ret |-> TRUE, val |-> r, arg |-> ls]
              ELSE [lines |-> ls, ret |-> FALSE, val |-> r, arg |-> ls]
         ELSE [lines |-> Append(ls, line), ret |-> FALSE, val |-> ErrEvent(""), arg |-> <<>>]

\* the effect of one loop iteration on the state of the lib.rs reader
LibIterate(msg) ==
    LET b == LibLoopBody(lines, msg) IN
    /\ lines' = b.lines
    /\ pc' = IF b.ret THEN "lib_idle" ELSE "lib_loop"
    /\ out' = IF b.ret THEN Append(out, b.val) ELSE out
    /\ libAttempt' = IF b.arg # <<>> THEN [lines |-> b.arg, res |-> b.val] ELSE libAttempt

\* the consumer calls next() of the lib.rs reader: let mut lines = Vec::new()
LibPull ==
    /\ pc = "lib_idle"
    /\ pc' = "lib_loop"
    /\ lines' = <<>>
    /\ spun' = FALSE
    /\ UNCHANGED <<closed, delivered, out, attempt, libAttempt>>
    /\ UNCHANGED pageVars
    /\ UNCHANGED decodeVars

\* a loop iteration in which read_line delivers a line
LibReadLine ==
    /\ pc = "lib_loop" /\ ~closed /\ Len(delivered) < MaxLibReads
    /\ \E t \in LibMessages :
          /\ delivered' = Append(delivered, OkMsg(t))
          /\ LibIterate(OkMsg(t))
    /\ UNCHANGED <<closed, spun, attempt>>
    /\ UNCHANGED pageVars
    /\ UNCHANGED decodeVars

\* a loop iteration in which read_line fails
LibReadError ==
    /\ pc = "lib_loop" /\ ~closed /\ Len(delivered) < MaxLibReads
    /\ delivered' = Append(delivered, ErrMsg)
    /\ LibIterate(ErrMsg)
    /\ UNCHANGED <<closed, spun, attempt>>
    /\ UNCHANGED pageVars
    /\ UNCHANGED decodeVars

\* a loop iteration at end-of-input: read_line reads zero bytes
LibReadAtEnd ==
    /\ pc = "lib_loop" /\ closed
    /\ LibIterate(OkMsg(""))
    /\ spun' = TRUE
    /\ UNCHANGED <<closed, delivered, attempt>>
    /\ UNCHANGED pageVars
    /\ UNCHANGED decodeVars

StreamInit ==
    /\ pc = "idle"
    /\ lines = <<>>
    /\ closed = FALSE
    /\ delivered = <<>>
    /\ out = <<>>
    /\ attempt = NoAttempt
    /\ spun = FALSE

\* ------------------------------------------------------------ Page engine
NoLink == [some |-> FALSE, val |-> ""]
SomeLink(u) == [some |-> TRUE, val |-> u]
NoPage == [items |-> <<>>, next |-> NoLink, prev |-> NoLink]
NoResponse == [items |-> <<>>, link |-> NoLink]
NoIter == [buf |-> <<>>, next |-> NoLink, done |-> FALSE]

\* the URL under which the server serves page p of the collection
Url(p) == "/p" \o ToString(p)
PageOfUrl(u) == CHOOSE p \in 1..Len(chain) : Url(p) = u

\* the items of page p, in server order
Items(p) == [k \in 1..chain[p] |-> 10 * p + k]

\* the Link header the server sends with page p (absent when it has no neighbour)
LinkHeader(p) ==
    LET nx == "<" \o Url(p + 1) \o ">; rel=\"next\""
        pv == "<" \o Url(p - 1) \o ">; rel=\"prev\""
    IN IF p < Len(chain) /\ p > 1 THEN SomeLink(nx \o ", " \o pv)
       ELSE IF p < Len(chain) THEN SomeLink(nx)
       ELSE IF p > 1 THEN SomeLink(pv)
       ELSE NoLink

Response(p) == [items |-> Items(p), link |-> LinkHeader(p)]

RECURSIVE IndexFrom(_, _, _)
\* the first position >= i of character c in s, 0 if none
IndexFrom(s, c, i) ==
    IF i > Len(s) THEN 0 ELSE IF Char(s, i) = c THEN i ELSE IndexFrom(s, c, i + 1)

RECURSIVE SplitOn(_, _)
SplitOn(s, c) ==
    LET i == IndexFrom(s, c, 1) IN
    IF i = 0 THEN <<s>>
    ELSE <<SubSeq(s, 1, i - 1)>> \o SplitOn(SubSeq(s, i + 1, Len(s)), c)

StripQuotes(s) ==
    IF Len(s) >= 2 /\ Char(s, 1) = "\"" /\ Char(s, Len(s)) = "\""
    THEN SubSeq(s, 2, Len(s) - 1) ELSE s

\* the value of the rel parameter among the parameters ps, "" if none
RelOf(ps) ==
    LET i == FindFirst([n \in 1..Len(ps) |-> Trim(ps[n])], "rel=") IN
    IF i = 0 THEN "" ELSE StripQuotes(Trim(SliceFrom(Trim(ps[i]), 4)))

\* one segment of a Link header: [ok, url, rel]
LinkSegment(seg) ==
    LET lt == IndexFrom(seg, "<", 1)
        gt == IndexFrom(seg, ">", 1)
    IN IF lt = 0 \/ gt = 0 \/ gt < lt THEN [ok |-> FALSE, url |-> "", rel |-> ""]
       ELSE LET rel == RelOf(SplitOn(SubSeq(seg, gt + 1, Len(seg)), ";")) IN
            [ok |-> rel # "", url |-> SubSeq(seg, lt + 1, gt - 1), rel |-> rel]

RECURSIVE LinkFold(_, _)
LinkFold(segs, acc) ==
    IF segs = <<>> THEN acc
    ELSE LET g == LinkSegment(Head(segs)) IN
         LinkFold(Tail(segs),
                  IF g.ok /\ g.rel = "next" THEN [acc EXCEPT !.next = SomeLink(g.url)]
                  ELSE IF g.ok /\ g.rel = "prev" THEN [acc EXCEPT !.prev = SomeLink(g.url)]
                  ELSE acc)

\* ParseLinks that gives up on the whole header at a segment it cannot use
ParseLinks_AllOrNothing(link) ==
    IF link.some /\ \A i \in 1..Len(SplitOn(link.val, ",")) :
                       /\ LinkSegment(SplitOn(link.val, ",")[i]).ok
                       /\ LinkSegment(SplitOn(link.val, ",")[i]).rel \in {"next", "prev"}
    THEN LinkFold(SplitOn(link.val, ","), [next |-> NoLink, prev |-> NoLink])
    ELSE [next |-> NoLink, prev |-> NoLink]

\* the next and prev URLs of a Link header (absent header: neither)
ParseLinks(link) ==
    IF link.some THEN LinkFold(SplitOn(link.val, ","), [next |-> NoLink, prev |-> NoLink])
    ELSE [next |-> NoLink, prev |-> NoLink]

\* Page::new(client, response)
PageNew(resp) ==
    [items |-> resp.items, next |-> ParseLinks(resp.link).next, prev |-> ParseLinks(resp.link).prev]

\* a GET of url: the response, or a failure
Fetch(u) ==
    IF PageOfUrl(u) = failAt THEN [ok |-> FALSE, resp |-> NoResponse]
    ELSE [ok |-> TRUE, resp |-> Response(PageOfUrl(u))]

\* Mastodon::statuses: GET the list route, then Page::new(self, response)
statuses ==
    /\ mode = "none" /\ Len(requests) < MaxRequests
    /\ \E p \in 1..Len(chain) :
          /\ requests' = Append(requests, Url(p))
          /\ lastOp' = "statuses"
          /\ IF Fetch(Url(p)).ok
             THEN /\ response' = Fetch(Url(p)).resp
                  /\ page' = PageNew(Fetch(Url(p)).resp)
                  /\ mode' = "page"
                  /\ cur' = p
                  /\ result' = "Ok"
             ELSE /\ result' = "Err"
                  /\ UNCHANGED <<response, page, mode, cur>>
    /\ UNCHANGED <<chain, failAt, iter, yielded>>
    /\ UNCHANGED streamVars
    /\ UNCHANGED decodeVars
    /\ UNCHANGED libVars

\* Navigate that treats a page without items as the end of the collection
Navigate_EmptyIsEnd(op, link) ==
    /\ mode = "page" /\ Len(requests) < MaxRequests
    /\ lastOp' = op
    /\ IF ~link.some \/ page.items = <<>>
       THEN /\ result' = "OkNone"
            /\ UNCHANGED <<requests, response, page, cur>>
       ELSE /\ requests' = Append(requests, link.val)
            /\ IF Fetch(link.val).ok
               THEN /\ response' = Fetch(link.val).resp
                    /\ page' = PageNew(Fetch(link.val).resp)
                    /\ cur' = PageOfUrl(link.val)
                    /\ result' = "OkSome"
               ELSE /\ result' = "Err"
                    /\ UNCHANGED <<response, page, cur>>
    /\ UNCHANGED <<chain, failAt, mode, iter, yielded>>
    /\ UNCHANGED streamVars
    /\ UNCHANGED decodeVars
    /\ UNCHANGED libVars

\* Navigate that sends the request before it looks at the link
Navigate_AlwaysRequests(op, link) ==
    /\ mode = "page" /\ Len(requests) < MaxRequests
    /\ lastOp' = op
    /\ requests' = Append(requests, link.val)
    /\ IF ~link.some
       THEN /\ result' = "OkNone"
            /\ UNCHANGED <<response, page, cur>>
       ELSE IF Fetch(link.val).ok
            THEN /\ response' = Fetch(link.val).resp
                 /\ page' = PageNew(Fetch(link.val).resp)
                 /\ cur' = PageOfUrl(link.val)
                 /\ result' = "OkSome"
            ELSE /\ result' = "Err"
                 /\ UNCHANGED <<response, page, cur>>
    /\ UNCHANGED <<chain, failAt, mode, iter, yielded>>
    /\ UNCHANGED streamVars
    /\ UNCHANGED decodeVars
    /\ UNCHANGED libVars

\* next_page / prev_page on the held Page, link being its next or prev field
Navigate(op, link) ==
    /\ mode = "page" /\ Len(requests) < MaxRequests
    /\ lastOp' = op
    /\ IF ~link.some
       THEN /\ result' = "OkNone"
            /\ UNCHANGED <<requests, response, page, cur>>
       ELSE /\ requests' = Append(requests, link.val)
            /\ IF Fetch(link.val).ok
               THEN /\ response' = Fetch(link.val).resp
                    /\ page' = PageNew(Fetch(link.val).resp)
                    /\ cur' = PageOfUrl(link.val)
                    /\ result' = "OkSome"
               ELSE /\ result' = "Err"
                    /\ UNCHANGED <<response, page, cur>>
    /\ UNCHANGED <<chain, failAt, mode, iter, yielded>>
    /\ UNCHANGED streamVars
    /\ UNCHANGED decodeVars
    /\ UNCHANGED libVars

NextPage == Navigate("next_page", page.next)
PrevPage == Navigate("prev_page", page.prev)

\* into_items_iter(): the iterator takes the page over
IntoItemsIter ==
    /\ mode = "page"
    /\ mode' = "iter"
    /\ iter' = [buf |-> page.items, next |-> page.next, done |-> FALSE]
    /\ lastOp' = "into_items_iter"
    /\ UNCHANGED <<chain, failAt, cur, page, requests, response, result, yielded>>
    /\ UNCHANGED streamVars
    /\ UNCHANGED decodeVars
    /\ UNCHANGED libVars

RECURSIVE IterPull(_, _)

\* IterPull that reports the end after a failed fetch but does not stay ended
IterPull_FailNotFinal(st, reqs) ==
    IF st.done THEN [st |-> st, reqs |-> reqs, item |-> 0]
    ELSE IF st.buf # <<>>
    THEN [st |-> [st EXCEPT !.buf = Tail(st.buf)], reqs |-> reqs, item |-> Head(st.buf)]
    ELSE IF ~st.next.some
    THEN [st |-> [st EXCEPT !.done = TRUE], reqs |-> reqs, item |-> 0]
    ELSE IF ~Fetch(st.next.val).ok
    THEN [st |-> st, reqs |-> Append(reqs, st.next.val), item |-> 0]
    ELSE LET pg == PageNew(Fetch(st.next.val).resp) IN
         IterPull([buf |-> pg.items, next |-> pg.next, done |-> FALSE],
                  Append(reqs, st.next.val))

\* IterPull that fetches the following page as soon as the buffer runs empty
IterPull_Prefetch(st, reqs) ==
    IF st.done THEN [st |-> st, reqs |-> reqs, item |-> 0]
    ELSE IF st.buf = <<>>
    THEN [st |-> [st EXCEPT !.done = TRUE], reqs |-> reqs, item |-> 0]
    ELSE IF Tail(st.buf) = <<>> /\ st.next.some /\ Fetch(st.next.val).ok
    THEN LET pg == PageNew(Fetch(st.next.val).resp) IN
         [st |-> [buf |-> pg.items, next |-> pg.next, done |-> FALSE],
          reqs |-> Append(reqs, st.next.val), item |-> Head(st.buf)]
    ELSE [st |-> [st EXCEPT !.buf = Tail(st.buf)], reqs |-> reqs, item |-> Head(st.buf)]

\* IterPull that ends at the end of the first page
IterPull_NoFollow(st, reqs) ==
    IF st.done THEN [st |-> st, reqs |-> reqs, item |-> 0]
    ELSE IF st.buf # <<>>
    THEN [st |-> [st EXCEPT !.buf = Tail(st.buf)], reqs |-> reqs, item |-> Head(st.buf)]
    ELSE [st |-> [st EXCEPT !.done = TRUE], reqs |-> reqs, item |-> 0]

\* one pull of the flattening iterator in state st with request log reqs:
\* the state and log afterwards and the item returned (0: end of sequence)
IterPull(st, reqs) ==
    IF st.done THEN [st |-> st, reqs |-> reqs, item |-> 0]
    ELSE IF st.buf # <<>>
    THEN [st |-> [st EXCEPT !.buf = Tail(st.buf)], reqs |-> reqs, item |-> Head(st.buf)]
    ELSE IF ~st.next.some
    THEN [st |-> [st EXCEPT !.done = TRUE], reqs |-> reqs, item |-> 0]
    ELSE IF ~Fetch(st.next.val).ok
    THEN [st |-> [st EXCEPT !.done = TRUE], reqs |-> Append(reqs, st.next.val), item |-> 0]
    ELSE LET pg == PageNew(Fetch(st.next.val).resp) IN
         IterPull([buf |-> pg.items, next |-> pg.next, done |-> FALSE],
                  Append(reqs, st.next.val))

\* Iterator::next on the flattening iterator
IterNext ==
    /\ mode = "iter"
    /\ LET r == IterPull(iter, requests) IN
          /\ iter' = r.st
          /\ requests' = r.reqs
          /\ yielded' = IF r.item # 0 THEN Append(yielded, r.item) ELSE yielded
          /\ result' = IF r.item # 0 THEN "Some" ELSE "None"
    /\ lastOp' = "iter_next"
    /\ UNCHANGED <<chain, failAt, cur, page, mode, response>>
    /\ UNCHANGED streamVars
    /\ UNCHANGED decodeVars
    /\ UNCHANGED libVars

\* segments a server can put into a Link header
LinkSegs ==
    { "</a>; rel=\"next\"",
      "</b>; rel=\"prev\"",
      "</c>; rel=\"last\"",
      "</e>; x=y; rel=\"prev\"",
      "</g>;rel=\"next\"",
      "rel=\"next\"",
      "</d>" }

RECURSIVE JoinSegs(_)
\* the header made of the segments segs
JoinSegs(segs) ==
    IF Len(segs) = 1 THEN segs[1] ELSE segs[1] \o ", " \o JoinSegs(Tail(segs))

SegLists == UNION {[1..n -> LinkSegs] : n \in 1..MaxSegs}

\* the Link headers of a response: none, or one of the segment lists
Headers == {NoLink} \cup {SomeLink(JoinSegs(hs)) : hs \in SegLists}

\* Mastodon::get_hashtag_timeline: GET the route, then Page::new(self, response);
\* response is what the server answered
get_hashtag_timeline ==
    /\ lastOp = "none"
    /\ lastOp' = "get_hashtag_timeline"
    /\ page' = PageNew(response)
    /\ mode' = "page"
    /\ result' = "Ok"
    /\ UNCHANGED <<chain, failAt, cur, requests, response, iter, yielded>>
    /\ UNCHANGED streamVars
    /\ UNCHANGED decodeVars
    /\ UNCHANGED libVars

\* ------------------------------------------------------ response decoding
\* Error::from(e) for the #[from] variants of Error that converts an I/O
\* error into the HTTP variant
ErrorFrom_IoAsHttp(src) ==
    CASE src = "ApiError"         -> "Api"
      [] src = "SerdeError"       -> "Serde"
      [] src = "UrlEncodedError"  -> "UrlEncoded"
      [] src = "HttpError"        -> "Http"
      [] src = "IoError"          -> "Http"
      [] src = "UrlError"         -> "Url"
      [] src = "HeaderStrError"   -> "HeaderStrError"
      [] src = "HeaderParseError" -> "HeaderParseError"
      [] src = "SerdeQsError"     -> "SerdeQs"
      [] src = "WebSocketError"   -> "WebSocket"

\* Error::from(e): the variant of Error that carries #[from] for the type of e
ErrorFrom(src) ==
    CASE src = "ApiError"         -> "Api"
      [] src = "SerdeError"       -> "Serde"
      [] src = "UrlEncodedError"  -> "UrlEncoded"
      [] src = "HttpError"        -> "Http"
      [] src = "IoError"          -> "Io"
      [] src = "UrlError"         -> "Url"
      [] src = "HeaderStrError"   -> "HeaderStrError"
      [] src = "HeaderParseError" -> "HeaderParseError"
      [] src = "SerdeQsError"     -> "SerdeQs"
      [] src = "WebSocketError"   -> "WebSocket"

ErrorSources ==
    {"ApiError", "SerdeError", "UrlEncodedError", "HttpError", "IoError", "UrlError",
     "HeaderStrError", "HeaderParseError", "SerdeQsError", "WebSocketError"}

NoRet == [kind |-> "none", err |-> "", val |-> <<>>]
RetOk(v) == [kind |-> "Ok", err |-> "", val |-> v]
RetErr(e, v) == [kind |-> "Err", err |-> e, val |-> v]

\* an Option<String> field k of the object fields fs
OptField(fs, k) ==
    IF FieldCount(fs, k) = 0 \/ Field(fs, k).isnull THEN NoPayload
    ELSE SomePayload(Field(fs, k).val)

\* the member k of the object fields fs fits an Option<String> field: absent,
\* or present once as null or a string
OptFieldOk(fs, k) ==
    \/ FieldCount(fs, k) = 0
    \/ FieldCount(fs, k) = 1 /\ (Field(fs, k).isnull \/ Field(fs, k).isstr)

\* ApiError with a required error: String
DecodeApiError_Required(s) ==
    LET o == JsonObject(s) IN
    IF o.ok /\ FieldCount(o.fields, "error") = 1 /\ Field(o.fields, "error").isstr
            /\ OptFieldOk(o.fields, "error_description")
    THEN [ok |-> TRUE, val |-> <<OptField(o.fields, "error"), OptField(o.fields, "error_description")>>]
    ELSE [ok |-> FALSE, val |-> <<>>]

\* serde_json::from_slice::<ApiError>: error and error_description, both
\* Option<String>; other fields are ignored
DecodeApiError(s) ==
    LET o == JsonObject(s) IN
    IF o.ok /\ OptFieldOk(o.fields, "error") /\ OptFieldOk(o.fields, "error_description")
    THEN [ok |-> TRUE, val |-> <<OptField(o.fields, "error"), OptField(o.fields, "error_description")>>]
    ELSE [ok |-> FALSE, val |-> <<>>]

RECURSIVE FirstNonWs(_, _)
\* the first position >= i of s that holds no JSON whitespace, 0 if none
FirstNonWs(s, i) ==
    IF i > Len(s) THEN 0
    ELSE IF Char(s, i) \in {" ", "\t", "\n", "\r"} THEN FirstNonWs(s, i + 1)
    ELSE i

RECURSIVE Elements(_)
\* the element texts of the inside of a JSON list of flat objects
Elements(inner) ==
    LET e == IndexFrom(inner, "}", 1)
        k == IF e = 0 THEN 0 ELSE FirstNonWs(inner, e + 1)
    IN IF e = 0 \/ k = 0 THEN <<inner>>
       ELSE IF Char(inner, k) = ","
            THEN <<SubSeq(inner, 1, e)>> \o Elements(SubSeq(inner, k + 1, Len(inner)))
            ELSE <<inner>>

\* serde_json::from_slice::<Vec<Status>>
DecodeVecStatus(s) ==
    LET t == Trim(s) IN
    IF Len(t) < 2 \/ Char(t, 1) # "[" \/ Char(t, Len(t)) # "]"
    THEN [ok |-> FALSE, body |-> <<>>]
    ELSE LET inner == SubSeq(t, 2, Len(t) - 1) IN
         IF FirstNonWs(inner, 1) = 0 THEN [ok |-> TRUE, body |-> <<>>]
         ELSE IF \A n \in 1..Len(Elements(inner)) : DecodeStatus(Elements(inner)[n]).ok
         THEN [ok |-> TRUE,
               body |-> [n \in 1..Len(Elements(inner)) |-> DecodeStatus(Elements(inner)[n]).body]]
         ELSE [ok |-> FALSE, body |-> <<>>]

\* serde_json::from_slice::<T> for the requested type T
DecodeAs(want, s) ==
    IF want = "VecStatus" THEN DecodeVecStatus(s)
    ELSE IF DecodeStatus(s).ok THEN [ok |-> TRUE, body |-> <<DecodeStatus(s).body>>]
    ELSE [ok |-> FALSE, body |-> <<>>]

\* The number of bytes serde_json::from_reader::<T> has taken from the reader
\* when it fails on s (it reads byte by byte and stops at the byte where it
\* fails): s is a flat object, a list of flat objects, or no JSON at all.
ReadBy(want, s) ==
    LET k == FirstNonWs(s, 1)
        e == IndexFrom(s, "}", 1)
    IN IF k = 0 THEN Len(s)
       ELSE IF want = "VecStatus"
       THEN IF Char(s, k) # "[" THEN k
            ELSE IF e = 0 THEN Len(s) ELSE e
       ELSE IF Char(s, k) = "{"
       THEN IF e = 0 THEN Len(s)
            ELSE IF DecodeStatus(SubSeq(s, 1, e)).ok /\ FirstNonWs(s, e + 1) # 0
            THEN FirstNonWs(s, e + 1)
            ELSE e
       ELSE IF Char(s, k) = "[" /\ FirstNonWs(s, k + 1) # 0 THEN FirstNonWs(s, k + 1)
       ELSE IF Char(s, k) = "[" THEN Len(s)
       ELSE k

\* what deserialise_blocking returns on the response of call c
BlockingRet(c) ==
    IF ~c.readok THEN RetErr(ErrorFrom("HttpError"), <<>>)
    ELSE IF DecodeAs(c.want, c.body).ok
    THEN RetOk(DecodeAs(c.want, c.body).body)
    ELSE IF DecodeApiError(c.body).ok
    THEN RetErr("Api", DecodeApiError(c.body).val)
    ELSE RetErr(ErrorFrom("SerdeError"), <<>>)

\* util.rs deserialise_blocking
deserialise_blocking ==
    /\ call.fn = "deserialise_blocking" /\ ret = NoRet
    /\ ret' = BlockingRet(call)
    /\ UNCHANGED <<call, tapped>>
    /\ UNCHANGED streamVars
    /\ UNCHANGED pageVars
    /\ UNCHANGED libVars

\* lib.rs deserialise: the body is read through a Tap, the fallback decodes
\* what the Tap has recorded
\* the bytes the Tap of deserialise holds after from_reader has run
TappedBy(c) ==
    IF ~c.readok THEN ""
    ELSE IF DecodeAs(c.want, c.body).ok THEN c.body
    ELSE SubSeq(c.body, 1, ReadBy(c.want, c.body))

\* what deserialise returns on the response of call c
TapRet(c) ==
    IF c.readok /\ DecodeAs(c.want, c.body).ok
    THEN RetOk(DecodeAs(c.want, c.body).body)
    ELSE IF DecodeApiError(TappedBy(c)).ok
    THEN RetErr("Api", DecodeApiError(TappedBy(c)).val)
    ELSE RetErr(ErrorFrom("SerdeError"), <<>>)

deserialise ==
    /\ call.fn = "deserialise" /\ ret = NoRet
    /\ tapped' = TappedBy(call)
    /\ ret' = TapRet(call)
    /\ UNCHANGED call
    /\ UNCHANGED streamVars
    /\ UNCHANGED pageVars
    /\ UNCHANGED libVars

\* Error::from(e) on an error of one of the wrapped types
error_from ==
    /\ call.fn = "from" /\ ret = NoRet
    /\ ret' = RetErr(ErrorFrom(call.src), <<>>)
    /\ UNCHANGED <<call, tapped>>
    /\ UNCHANGED streamVars
    /\ UNCHANGED pageVars
    /\ UNCHANGED libVars

\* response bodies a server can send
Bodies ==
    { "{\"id\":\"1\",\"uri\":\"u\"}",
      "[{\"id\":\"1\",\"uri\":\"u\"}]",
      "[]",
      "{\"error\":\"denied\"}",
      "{\"error_description\":\"d\"}\n",
      " {\"error\":null} ",
      "{}",
      "{\"id\":\"1\"}",
      "[{\"id\":\"1\"}]",
      "{\"error\":\"x\"}}",
      "{\"error\":",
      "{\"error\":42}",
      "{\"status\":404,\"error\":\"gone\"}",
      "{\"error\":\"a\",\"error\":\"b\"}",
      "<html>",
      "" }

NoCall == [fn |-> "none", want |-> "", body |-> "", readok |-> TRUE, src |-> ""]

Calls ==
    {[fn |-> f, want |-> w, body |-> b, readok |-> r, src |-> ""] :
        f \in {"deserialise_blocking", "deserialise"}, w \in {"Status", "VecStatus"},
        b \in Bodies, r \in BOOLEAN}
    \cup {[fn |-> "from", want |-> "", body |-> "", readok |-> TRUE, src |-> e] :
            e \in ErrorSources}

DecodeParked == call = NoCall /\ tapped = "" /\ ret = NoRet
LibParked == libAttempt = NoAttempt

\* ------------------------------------------- status-checked operations
\* HTTP status codes around the borders of the 4xx and 5xx classes
StatusCodes == {200, 399, 400, 499, 500, 599, 600}

\* status check that knows the server errors only
StatusCheck_ServerOnly(status) ==
    IF status >= 500 /\ status < 600 THEN RetErr("Server", <<status>>)
    ELSE NoRet

\* if status.is_client_error() { return Err(Error::Client(status)) } else if
\* status.is_server_error() { return Err(Error::Server(status)) }: the early
\* return, NoRet when the handler goes on
StatusCheck(status) ==
    IF status >= 400 /\ status < 500 THEN RetErr("Client", <<status>>)
    ELSE IF status >= 500 /\ status < 600 THEN RetErr("Server", <<status>>)
    ELSE NoRet

\* the step before the request is sent and the error its ? returns:
\* builder.build()? of update_credentials, File::open/read_to_end of media
PrepareError(fn) ==
    IF fn = "media" THEN RetErr(ErrorFrom("IoError"), <<>>)
    ELSE RetErr("Build", <<>>)

\* c reaches the decoding of the response body
ReachesDecode(c) == c.prepared /\ c.sendok /\ StatusCheck(c.status) = NoRet

\* a status-checked operation on call c, decoded being what the decoding
\* function returns on the response
CheckedRet(c, decoded) ==
    IF ~c.prepared THEN PrepareError(c.fn)
    ELSE IF ~c.sendok THEN RetErr(ErrorFrom("HttpError"), <<>>)
    ELSE IF StatusCheck(c.status) # NoRet THEN StatusCheck(c.status)
    ELSE decoded

\* an operation of mastodon.rs: send_blocking, status check, deserialise_blocking
CheckedBlocking ==
    /\ ret = NoRet
    /\ ret' = CheckedRet(call, BlockingRet(call))
    /\ UNCHANGED <<call, tapped>>
    /\ UNCHANGED streamVars
    /\ UNCHANGED pageVars
    /\ UNCHANGED libVars

\* an operation of lib.rs: send, status check, deserialise
CheckedTap ==
    /\ ret = NoRet
    /\ ret' = CheckedRet(call, TapRet(call))
    /\ tapped' = IF ReachesDecode(call) THEN TappedBy(call) ELSE ""
    /\ UNCHANGED call
    /\ UNCHANGED streamVars
    /\ UNCHANGED pageVars
    /\ UNCHANGED libVars

add_filter ==
    /\ call.fn = "add_filter"
    /\ CheckedBlocking
update_filter ==
    /\ call.fn = "update_filter"
    /\ CheckedBlocking
update_credentials ==
    /\ call.fn = "update_credentials"
    /\ CheckedBlocking
media ==
    /\ call.fn = "media"
    /\ CheckedBlocking
lib_add_filter ==
    /\ call.fn = "lib_add_filter"
    /\ CheckedTap
lib_update_filter ==
    /\ call.fn = "lib_update_filter"
    /\ CheckedTap
lib_update_credentials ==
    /\ call.fn = "lib_update_credentials"
    /\ CheckedTap

CheckedFns ==
    {"add_filter", "update_filter", "update_credentials", "media",
     "lib_add_filter", "lib_update_filter", "lib_update_credentials"}

\* the calls of the status-checked operations: the entity asked for is
\* decoded like a Status
CheckedCalls ==
    {[fn |-> f, prepared |-> p, sendok |-> k, status |-> st, want |-> "Status",
      body |-> b, readok |-> r] :
        f \in CheckedFns, p \in BOOLEAN, k \in BOOLEAN, st \in StatusCodes,
        b \in {"{\"id\":\"1\",\"uri\":\"u\"}", "{\"error\":\"denied\"}", "<html>"},
        r \in BOOLEAN}
    \ {c \in [fn : {"add_filter", "update_filter", "lib_add_filter", "lib_update_filter"},
              prepared : {FALSE}, sendok : BOOLEAN, status : StatusCodes,
              want : {"Status"},
              body : {"{\"id\":\"1\",\"uri\":\"u\"}", "{\"error\":\"denied\"}", "<html>"},
              readok : BOOLEAN] : TRUE}

\* ----------------------------------------------------- MastodonBuilder
\* Number of client() and data() calls made on one builder.
MaxBuilderOps == 3

None == [some |-> FALSE, val |-> ""]
Some(v) == [some |-> TRUE, val |-> v]

\* MastodonBuilder::default() / MastodonBuilder::new(sender)
BuilderNew(sender) ==
    [fn |-> "builder", sender |-> sender, client |-> None, data |-> None, ops |-> <<>>]

BuilderClient(b, c) ==
    [b EXCEPT !.client = Some(c), !.ops = Append(@, <<"client", c>>)]
BuilderData(b, d) ==
    [b EXCEPT !.data = Some(d), !.ops = Append(@, <<"data", d>>)]

\* build that also insists on a client
BuilderBuild_ClientRequired(b) ==
    IF b.data.some /\ b.client.some
    THEN RetOk(<<[client |-> b.client.val, sender |-> b.sender, data |-> b.data.val]>>)
    ELSE RetErr("MissingField", <<"missing field 'data'">>)

\* MastodonBuilder::build
BuilderBuild(b) ==
    IF b.data.some
    THEN RetOk(<<[client |-> IF b.client.some THEN b.client.val ELSE "Client::new()",
                  sender |-> b.sender, data |-> b.data.val]>>)
    ELSE RetErr("MissingField", <<"missing field 'data'">>)

\* Result::expect
Expect(r) == IF r.kind = "Ok" THEN r ELSE [kind |-> "panic", err |-> r.err, val |-> <<>>]

\* builder.client(client)
builder_client ==
    /\ call.fn = "builder" /\ ret = NoRet /\ Len(call.ops) < MaxBuilderOps
    /\ \E c \in {"c1", "c2"} : call' = BuilderClient(call, c)
    /\ UNCHANGED <<tapped, ret>>
    /\ UNCHANGED streamVars
    /\ UNCHANGED pageVars
    /\ UNCHANGED libVars

\* builder.data(data)
builder_data ==
    /\ call.fn = "builder" /\ ret = NoRet /\ Len(call.ops) < MaxBuilderOps
    /\ \E d \in {"d1", "d2"} : call' = BuilderData(call, d)
    /\ UNCHANGED <<tapped, ret>>
    /\ UNCHANGED streamVars
    /\ UNCHANGED pageVars
    /\ UNCHANGED libVars

\* builder.build(): consumes the builder
builder_build ==
    /\ call.fn = "builder" /\ ret = NoRet
    /\ ret' = BuilderBuild(call)
    /\ UNCHANGED <<call, tapped>>
    /\ UNCHANGED streamVars
    /\ UNCHANGED pageVars
    /\ UNCHANGED libVars

\* Mastodon::from(data)
from_data ==
    /\ call.fn = "from_data" /\ ret = NoRet
    /\ ret' = Expect(BuilderBuild(BuilderData(BuilderNew(call.sender), call.data)))
    /\ UNCHANGED <<call, tapped>>
    /\ UNCHANGED streamVars
    /\ UNCHANGED pageVars
    /\ UNCHANGED libVars

BuilderCalls ==
    {BuilderNew(sd) : sd \in {"", "HttpSender"}}
    \cup {[fn |-> "from_data", sender |-> sd, data |-> d] :
            sd \in {"", "HttpSender"}, d \in {"d1", "d2"}}

\* ------------------------------------------------- streaming constructors
\* scheme mapping that always picks the secure scheme
SchemeMap_AllSecure(scheme) ==
    IF scheme \in {"http", "https"} THEN Some("wss") ELSE None

\* match url.scheme() { "http" => "ws", "https" => "wss", x => return Err(..) }
SchemeMap(scheme) ==
    IF scheme = "http" THEN Some("ws")
    ELSE IF scheme = "https" THEN Some("wss")
    ELSE None

\* a streaming constructor on call c: what it returns and the network
\* requests it makes, in order
StreamingConnect(c) ==
    IF ~c.parseok THEN [ret |-> RetErr(ErrorFrom("UrlError"), <<>>), reqs |-> <<>>]
    ELSE IF ~c.getok THEN [ret |-> RetErr(ErrorFrom("HttpError"), <<>>), reqs |-> <<"get">>]
    ELSE IF ~SchemeMap(c.scheme).some
    THEN [ret |-> RetErr("Other", <<"Bad URL scheme: " \o c.scheme>>), reqs |-> <<"get">>]
    ELSE IF ~c.connectok
    THEN [ret |-> RetErr(ErrorFrom("WebSocketError"), <<>>),
          reqs |-> <<"get", "connect " \o SchemeMap(c.scheme).val>>]
    ELSE [ret |-> RetOk(<<"EventReader">>),
          reqs |-> <<"get", "connect " \o SchemeMap(c.scheme).val>>]

Streaming ==
    /\ ret = NoRet
    /\ ret' = StreamingConnect(call).ret
    /\ requests' = requests \o StreamingConnect(call).reqs
    /\ UNCHANGED <<call, tapped>>
    /\ UNCHANGED <<chain, failAt, cur, page, mode, response, lastOp, result, iter, yielded>>
    /\ UNCHANGED streamVars
    /\ UNCHANGED libVars

streaming_user ==
    /\ call.fn = "streaming_user"
    /\ Streaming
streaming_public ==
    /\ call.fn = "streaming_public"
    /\ Streaming
streaming_local ==
    /\ call.fn = "streaming_local"
    /\ Streaming
streaming_public_hashtag ==
    /\ call.fn = "streaming_public_hashtag"
    /\ Streaming
streaming_local_hashtag ==
    /\ call.fn = "streaming_local_hashtag"
    /\ Streaming
streaming_list ==
    /\ call.fn = "streaming_list"
    /\ Streaming
streaming_direct ==
    /\ call.fn = "streaming_direct"
    /\ Streaming
unauth_streaming_public ==
    /\ call.fn = "unauth_streaming_public"
    /\ Streaming

StreamingFns ==
    {"streaming_user", "streaming_public", "streaming_local", "streaming_public_hashtag",
     "streaming_local_hashtag", "streaming_list", "streaming_direct",
     "unauth_streaming_public"}

\* the calls of the streaming constructors: whether the route parses, whether
\* the GET succeeds, the scheme of the URL of its response, whether the
\* WebSocket connects
StreamingCalls ==
    {[fn |-> f, parseok |-> p, getok |-> g, scheme |-> sc, connectok |-> k] :
        f \in StreamingFns, p \in BOOLEAN, g \in BOOLEAN,
        sc \in {"http", "https", "ws", "ftp"}, k \in BOOLEAN}

\* ------------------------------------------------------- relationships
\* Length of the id list handed to relationships.
MaxIds == 2

Base == "https://m.io"

\* Mastodon::route
Route(path) == Base \o path

\* String::pop
Pop(s) == IF Len(s) = 0 THEN s ELSE SubSeq(s, 1, Len(s) - 1)

RECURSIVE IdParams(_)
\* for id in ids { url += "id[]="; url += id; url += "&"; }
IdParams(ids) ==
    IF ids = <<>> THEN "" ELSE "id[]=" \o Head(ids) \o "&" \o IdParams(Tail(ids))

\* the URL relationships requests for ids
RelationshipsUrl(ids) ==
    LET url == Route("/api/v1/accounts/relationships?") IN
    IF Len(ids) = 1 THEN url \o "id=" \o ids[1]
    ELSE Pop(url \o IdParams(ids))

\* relationships(ids): GET the URL, then Page::new(self, response)
Relationships ==
    /\ ret = NoRet
    /\ requests' = Append(requests, RelationshipsUrl(call.ids))
    /\ lastOp' = "relationships"
    /\ IF Fetch(Url(1)).ok
       THEN /\ response' = Fetch(Url(1)).resp
            /\ page' = PageNew(Fetch(Url(1)).resp)
            /\ mode' = "page"
            /\ cur' = 1
            /\ result' = "Ok"
            /\ ret' = RetOk(<<"Page">>)
       ELSE /\ result' = "Err"
            /\ ret' = RetErr(ErrorFrom("HttpError"), <<>>)
            /\ UNCHANGED <<response, page, mode, cur>>
    /\ UNCHANGED <<call, tapped>>
    /\ UNCHANGED <<chain, failAt, iter, yielded>>
    /\ UNCHANGED streamVars
    /\ UNCHANGED libVars

relationships ==
    /\ call.fn = "relationships"
    /\ Relationships
lib_relationships ==
    /\ call.fn = "lib_relationships"
    /\ Relationships

RelationshipsCalls ==
    {[fn |-> f, ids |-> ids] :
        f \in {"relationships", "lib_relationships"},
        ids \in UNION {[1..n -> {"1", "22"}] : n \in 0..MaxIds}}

\* the collections the server can hold
Chains == UNION {[1..n -> 0..MaxItems] : n \in 1..MaxPages}

PageParked ==
    /\ cur = 0
    /\ page = NoPage
    /\ mode = "none"
    /\ requests = <<>>
    /\ response = NoResponse
    /\ lastOp = "none"
    /\ result = "none"
    /\ iter = NoIter
    /\ yielded = <<>>

PageInit ==
    /\ chain \in Chains
    /\ failAt \in 0..Len(chain)
    /\ PageParked

vars == <<pc, lines, closed, delivered, out, attempt, spun,
          chain, failAt, cur, page, mode, requests, response, lastOp, result, iter, yielded,
          call, tapped, ret, libAttempt>>

\* ------------------------------------------------------- specifications
\* the stream decoder
Init == StreamInit /\ chain = <<0>> /\ failAt = 0 /\ PageParked /\ DecodeParked /\ LibParked
Next == Pull \/ ReadLine \/ ReadError \/ Close \/ ReadAtEnd

Spec == Init /\ [][Next]_vars

\* the thread inside next() keeps running its loop
FairSpec == Spec /\ WF_vars(ReadAtEnd)

\* both readers, each on its own source
InitReaders ==
    /\ pc \in {"idle", "lib_idle"}
    /\ lines = <<>> /\ closed = FALSE /\ delivered = <<>> /\ out = <<>>
    /\ attempt = NoAttempt /\ spun = FALSE
    /\ chain = <<0>> /\ failAt = 0 /\ PageParked /\ DecodeParked /\ LibParked
NextReaders ==
    \/ Pull \/ ReadLine \/ ReadError \/ Close \/ ReadAtEnd
    \/ LibPull \/ LibReadLine \/ LibReadError \/ LibReadAtEnd

ReadersSpec == InitReaders /\ [][NextReaders]_vars

\* the operations of the client
InitClient ==
    /\ StreamInit /\ chain = <<2, 1>> /\ failAt \in {0, 1} /\ PageParked
    /\ call \in CheckedCalls \cup BuilderCalls \cup StreamingCalls \cup RelationshipsCalls
    /\ tapped = "" /\ ret = NoRet /\ LibParked
NextClient ==
    \/ add_filter \/ update_filter \/ update_credentials \/ media
    \/ lib_add_filter \/ lib_update_filter \/ lib_update_credentials
    \/ builder_client \/ builder_data \/ builder_build \/ from_data
    \/ streaming_user \/ streaming_public \/ streaming_local
    \/ streaming_public_hashtag \/ streaming_local_hashtag \/ streaming_list
    \/ streaming_direct \/ unauth_streaming_public
    \/ relationships \/ lib_relationships

ClientSpec == InitClient /\ [][NextClient]_vars

\* make_event as a function of the accumulator
InitMakeEvent ==
    /\ \/ pc = "make_event" /\ lines \in Frames
       \/ pc = "lib_make_event" /\ lines \in LibFrames
    /\ closed = FALSE /\ delivered = <<>> /\ out = <<>>
    /\ attempt = NoAttempt /\ spun = FALSE
    /\ chain = <<0>> /\ failAt = 0 /\ PageParked /\ DecodeParked /\ LibParked
NextMakeEvent == CallMakeEvent \/ CallLibMakeEvent

MakeEventSpec == InitMakeEvent /\ [][NextMakeEvent]_vars

\* Page::new as a function of the response
InitLink ==
    /\ StreamInit /\ chain = <<0>> /\ failAt = 0
    /\ cur = 0 /\ page = NoPage /\ mode = "none" /\ requests = <<>>
    /\ lastOp = "none" /\ result = "none" /\ iter = NoIter /\ yielded = <<>>
    /\ response \in {[items |-> <<>>, link |-> h] : h \in Headers}
    /\ DecodeParked /\ LibParked
NextLink == get_hashtag_timeline

LinkSpec == InitLink /\ [][NextLink]_vars

\* the Page engine
InitPage == PageInit /\ StreamInit /\ DecodeParked /\ LibParked

\* response decoding and error conversion
InitDecode ==
    /\ StreamInit /\ chain = <<0>> /\ failAt = 0 /\ PageParked
    /\ call \in Calls /\ tapped = "" /\ ret = NoRet /\ LibParked
NextDecode == deserialise_blocking \/ deserialise \/ error_from

DecodeSpec == InitDecode /\ [][NextDecode]_vars
NextPageEngine == statuses \/ NextPage \/ PrevPage \/ IntoItemsIter \/ IterNext

PageSpec == InitPage /\ [][NextPageEngine]_vars

TypeOK ==
    /\ pc \in {"idle", "loop", "lib_idle", "lib_loop", "make_event", "lib_make_event", "returned"}
    /\ closed \in BOOLEAN
    /\ Len(delivered) <= MaxReads + MaxLibReads
    /\ spun \in BOOLEAN
    /\ \A i \in 1..Len(out) : out[i].ok

\* ------------------------------------------------------------ properties
\* The decoder run from an empty accumulator over a sequence of read results.
RECURSIVE Run(_, _, _)
Run(msgs, ls, evs) ==
    IF msgs = <<>> THEN [lines |-> ls, out |-> evs]
    ELSE LET b == LoopBody(ls, Head(msgs)) IN
         Run(Tail(msgs), b.lines, IF b.ret THEN Append(evs, b.val) ELSE evs)

\* l begins with the text p
HasPrefix(l, p) == Len(l) >= Len(p) /\ SubSeq(l, 1, Len(p)) = p

KnownEvents == {"notification", "update", "delete", "filters_changed"}
PayloadEvents == {"notification", "update", "delete"}

\* text is an "event:" line of a name outside the four known names
IsUnknownEventLine(text) ==
    /\ HasPrefix(Trim(text), "event:")
    /\ Trim(SubSeq(Trim(text), 7, Len(Trim(text)))) \notin KnownEvents

\* C1: when a frame that starts on an empty accumulator has an unknown event
\* name and the source then delivers "event: filters_changed", the pull
\* returns Event::FiltersChanged for that line (the decoder is not wedged).
C1_NotWedged ==
    \A i \in 1..(Len(delivered) - 1) :
        ( /\ i + 1 = Len(delivered)
          /\ Run(SubSeq(delivered, 1, i - 1), <<>>, <<>>).lines = <<>>
          /\ delivered[i].ok /\ IsUnknownEventLine(delivered[i].text)
          /\ delivered[i + 1].ok
          /\ Trim(delivered[i + 1].text) = "event: filters_changed" )
        => ( out # <<>> /\ Last(out).type = "FiltersChanged" /\ lines = <<>> )

\* C2: a pull whose completion attempt fails (unknown event, missing payload,
\* undecodable payload) has returned that error to the consumer and holds an
\* empty accumulator.
C2_ErrorReturned ==
    (attempt.lines # <<>> /\ ~attempt.res.ok)
        => (pc = "idle" /\ lines = <<>> /\ out # <<>> /\ Last(out) = attempt.res)

\* C3: once the source has signalled end-of-input, a running pull eventually
\* returns (with end-of-sequence).
C3_EndTerminates == (closed /\ pc = "loop") ~> (pc = "idle")

IsLineMsg(m) == m.ok

\* C4: read errors change nothing: the pull is still running after one, and
\* accumulator and emitted events are those of the same input without the
\* read errors.
C4_ReadErrorIgnored ==
    LET r == Run(SelectSeq(delivered, IsLineMsg), <<>>, <<>>) IN
    /\ r.out = out
    /\ pc = "loop" => r.lines = lines
    /\ (delivered # <<>> /\ ~Last(delivered).ok) => pc = "loop"

C4_Witness ==
    /\ Len(delivered) = 3
    /\ delivered[1] = OkMsg("event: update\n")
    /\ delivered[2] = ErrMsg
    /\ Len(out) = 1 /\ out[1].type = "Update"

\* a delivered line that is empty after trimming or starts with ":"
IsCommentOrBlank(m) ==
    m.ok /\ (Trim(m.text) = "" \/ HasPrefix(Trim(m.text), ":"))
IsContent(m) == ~IsCommentOrBlank(m)

\* C5: the emitted events and the accumulator are those of the input with its
\* blank and ":" lines removed.
C5_CommentsIgnored ==
    LET r == Run(SelectSeq(delivered, IsContent), <<>>, <<>>) IN
    /\ r.out = out
    /\ pc = "loop" => r.lines = lines
    /\ \A i \in 1..Len(lines) : lines[i] # "" /\ ~HasPrefix(lines[i], ":")

C5_Witness ==
    /\ Len(delivered) = 3
    /\ delivered[1] = OkMsg("event: update\n")
    /\ IsCommentOrBlank(delivered[2])
    /\ Len(out) = 1 /\ out[1].type = "Update"

IsEventLine(l) == HasPrefix(l, "event:")
IsDataLine(l) == HasPrefix(l, "data:")
NameOf(l) == Trim(SubSeq(l, 7, Len(l)))
PayloadOf(l) == Trim(SubSeq(l, 6, Len(l)))

\* the event of dialect A for a name and a payload text
TableA(name, payload) ==
    CASE name = "notification" /\ DecodeNotification(payload).ok ->
            OkEvent("Notification", DecodeNotification(payload).body)
      [] name = "update" /\ DecodeStatus(payload).ok ->
            OkEvent("Update", DecodeStatus(payload).body)
      [] name = "delete" -> OkEvent("Delete", <<payload>>)
      [] name = "filters_changed" -> OkEvent("FiltersChanged", <<>>)
      [] OTHER -> ErrEvent("")

\* C6: on an accumulator of one "event:" line and one "data:" line make_event
\* yields the event of the table for the exact name, and no event for any
\* other name.
C6_DialectA ==
    \A e \in 1..2 :
        ( /\ Len(attempt.lines) = 2
          /\ IsEventLine(attempt.lines[e]) /\ IsDataLine(attempt.lines[3 - e]) )
        => LET t == TableA(NameOf(attempt.lines[e]), PayloadOf(attempt.lines[3 - e])) IN
           /\ attempt.res.ok = t.ok
           /\ t.ok => attempt.res = t
           /\ NameOf(attempt.lines[e]) \notin KnownEvents => ~attempt.res.ok

C6_Witness ==
    /\ attempt.lines = <<"event: update", "data: {\"id\":\"1\",\"uri\":\"u\"}">>
    /\ attempt.res = OkEvent("Update", <<"1", "u">>)

\* C7: with no "event:" line in the accumulator the first line is decoded as
\* the JSON envelope and its (event, payload) pair is mapped by the table;
\* the single line {"event":"filters_changed"} yields FiltersChanged.
C7_DialectB ==
    (attempt.lines # <<>> /\ \A i \in 1..Len(attempt.lines) : ~IsEventLine(attempt.lines[i]))
    => LET m == DecodeMessage(attempt.lines[1]) IN
       /\ ~m.ok => ~attempt.res.ok
       /\ (m.ok /\ m.payload.some) =>
              /\ attempt.res.ok = TableA(m.event, m.payload.val).ok
              /\ attempt.res.ok => attempt.res = TableA(m.event, m.payload.val)
       /\ (m.ok /\ ~m.payload.some) =>
              attempt.res.ok = (m.event = "filters_changed")
       /\ attempt.lines = <<"{\"event\":\"filters_changed\"}">> =>
              attempt.res = OkEvent("FiltersChanged", <<>>)
       /\ attempt.lines = <<"{\"event\":\"delete\",\"payload\":\"7\"}">> =>
              attempt.res = OkEvent("Delete", <<"7">>)

C7_Witness ==
    /\ attempt.lines = <<"{\"event\":\"filters_changed\"}">>
    /\ attempt.res.ok /\ attempt.res.type = "FiltersChanged"

\* the frame ls names an event that needs a payload and has none
LacksPayload(ls) ==
    IF \E i \in 1..Len(ls) : IsEventLine(ls[i])
    THEN /\ NameOf(ls[FindFirst(ls, "event:")]) \in PayloadEvents
         /\ \A i \in 1..Len(ls) : ~IsDataLine(ls[i])
    ELSE /\ ls # <<>>
         /\ DecodeMessage(ls[1]).ok
         /\ DecodeMessage(ls[1]).event \in PayloadEvents
         /\ ~DecodeMessage(ls[1]).payload.some

\* C8: a frame that names notification, update or delete and has no payload
\* emits nothing and stays accumulated; every emitted notification, update or
\* delete comes from a frame that has a payload.
C8_MissingPayload ==
    /\ LacksPayload(attempt.lines) =>
          ~attempt.res.ok /\ (pc = "loop" => lines = attempt.lines)
    /\ \A i \in 1..Len(out) : out[i].type \in {"Notification", "Update", "Delete", "FiltersChanged"}
    /\ (attempt.res.ok /\ attempt.res.type # "FiltersChanged") => ~LacksPayload(attempt.lines)

C8_Witness ==
    /\ delivered = <<OkMsg("event: update\n")>>
    /\ pc = "loop" /\ lines = <<"event: update">> /\ out = <<>>
    /\ ~attempt.res.ok

\* C9: next_page (prev_page) on a Page without next (prev) link returns
\* Ok(None) and sends no request; a Page built from a response without Link
\* header has neither link.
C9_PageTermination ==
    /\ [](mode = "page" /\ ~response.link.some => ~page.next.some /\ ~page.prev.some)
    /\ [][ /\ (lastOp' = "next_page" /\ ~page.next.some)
                => (result' = "OkNone" /\ requests' = requests /\ page' = page)
           /\ (lastOp' = "prev_page" /\ ~page.prev.some)
                => (result' = "OkNone" /\ requests' = requests /\ page' = page) ]_vars

C9_Witness ==
    /\ mode = "page" /\ ~response.link.some
    /\ lastOp = "next_page" /\ result = "OkNone"
    /\ Len(requests) = 1

RECURSIVE ItemsFrom(_, _)
\* the items of the pages a..b in server order
ItemsFrom(a, b) == IF a > b THEN <<>> ELSE Items(a) \o ItemsFrom(a + 1, b)

IsPrefix(a, b) == Len(a) <= Len(b) /\ SubSeq(b, 1, Len(a)) = a

\* C10: the flattening iterator yields the items of the first page and of the
\* pages after it in server order, each once; when no fetch fails it ends
\* only after the items of the last page; pages of 2, 2 and 1 items give 5.
C10_Flatten ==
    mode = "iter" =>
        /\ IsPrefix(yielded, ItemsFrom(cur, Len(chain)))
        /\ (iter.done /\ failAt \notin (cur + 1)..Len(chain))
              => yielded = ItemsFrom(cur, Len(chain))
        /\ (iter.done /\ chain = <<2, 2, 1>> /\ cur = 1 /\ failAt \notin 2..3)
              => Len(yielded) = 5
        /\ ~iter.done => yielded \o iter.buf \in
              {ItemsFrom(cur, q) : q \in cur..Len(chain)}

C10_Witness ==
    /\ mode = "iter" /\ iter.done
    /\ chain = <<2, 2, 1>> /\ cur = 1
    /\ Len(yielded) = 5 /\ Len(requests) = 3

\* the page whose items the iterator st holds or has last held
HeldPage(st) == IF st.next.some THEN PageOfUrl(st.next.val) - 1 ELSE Len(chain)

\* the page an item comes from
PageOfItem(x) == x \div 10

\* C11: the flattening iterator sends a request only inside a pull that finds
\* its buffer empty; into_items_iter sends none; a pull that yields an item
\* has fetched exactly the pages from the held one up to the item's page, all
\* of them empty but the last; on pages of 2, 2 and 1 items the pulls for the
\* first two items send no request and the pull for the third at most one.
C11_Lazy ==
    [][ mode' = "iter" =>
          /\ requests' # requests =>
                (mode = "iter" /\ lastOp' = "iter_next" /\ iter.buf = <<>> /\ ~iter.done)
          /\ (mode = "iter" /\ result' = "Some" /\ iter.buf # <<>>) => requests' = requests
          /\ (mode = "iter" /\ result' = "Some" /\ iter.buf = <<>>) =>
                LET n == PageOfItem(Last(yielded')) - HeldPage(iter) IN
                /\ n >= 1
                /\ requests' = requests \o [j \in 1..n |-> Url(HeldPage(iter) + j)]
                /\ \A j \in 1..(n - 1) : chain[HeldPage(iter) + j] = 0
          /\ (chain = <<2, 2, 1>> /\ cur = 1 /\ mode = "iter" /\ Len(yielded) < 2) =>
                requests' = requests
          /\ (chain = <<2, 2, 1>> /\ cur = 1 /\ mode = "iter" /\ Len(yielded) = 2) =>
                Len(requests') <= Len(requests) + 1 ]_vars

C11_Witness ==
    /\ mode = "iter" /\ ~iter.done
    /\ chain = <<2, 2, 1>> /\ cur = 1
    /\ Len(yielded) = 3 /\ requests = <<Url(1), Url(2)>>

\* C12: a pull of the flattening iterator whose follow-up fetch fails returns
\* end-of-sequence, never an error, and ends the iteration; once ended, no
\* pull yields an item or sends a request.
C12_FetchFailureEnds ==
    [][ /\ (mode = "iter" /\ lastOp' = "iter_next") => result' \in {"Some", "None"}
        /\ ( /\ mode = "iter" /\ requests' # requests
             /\ PageOfUrl(Last(requests')) = failAt )
              => (result' = "None" /\ iter'.done /\ yielded' = yielded)
        /\ (mode = "iter" /\ iter.done)
              => (iter' = iter /\ requests' = requests /\ yielded' = yielded
                    /\ result' = "None") ]_vars

C12_Witness ==
    /\ mode = "iter" /\ iter.done /\ result = "None"
    /\ failAt > cur /\ Last(requests) = Url(failAt)
    /\ yielded # <<>> /\ yielded = ItemsFrom(cur, failAt - 1)

\* what a segment of LinkSegs says: its relation and URL, rel "" where the
\* segment has no URL, no rel parameter or an unknown relation
SegMeaning(seg) ==
    CASE seg = "</a>; rel=\"next\""      -> [rel |-> "next", url |-> "/a"]
      [] seg = "</b>; rel=\"prev\""      -> [rel |-> "prev", url |-> "/b"]
      [] seg = "</e>; x=y; rel=\"prev\"" -> [rel |-> "prev", url |-> "/e"]
      [] seg = "</g>;rel=\"next\""       -> [rel |-> "next", url |-> "/g"]
      [] OTHER                           -> [rel |-> "", url |-> ""]

\* the URLs the segments hs give for relation rel
UrlsOf(hs, rel) == {SegMeaning(hs[i]).url : i \in {j \in 1..Len(hs) : SegMeaning(hs[j]).rel = rel}}

\* link is the URL the segments hs give for rel, absent when they give none
LinkAgrees(link, hs, rel) ==
    IF UrlsOf(hs, rel) = {} THEN ~link.some
    ELSE link.some /\ link.val \in UrlsOf(hs, rel)

C14_EmptyPageNavigates ==
    /\ []((mode = "page" /\ chain[cur] = 0) =>
            /\ page.items = <<>>
            /\ page.next.some = (cur < Len(chain))
            /\ page.prev.some = (cur > 1))
    /\ [][ (mode = "page" /\ lastOp' = "next_page" /\ page.items = <<>> /\ page.next.some) =>
              /\ requests' = Append(requests, page.next.val)
              /\ result' \in {"OkSome", "Err"}
              /\ result' = "Err" <=> failAt = cur + 1
              /\ result' = "OkSome" =>
                    (cur' = cur + 1 /\ page'.items = Items(cur + 1)) ]_vars

C14_Witness ==
    /\ mode = "page" /\ lastOp = "next_page" /\ result = "OkSome"
    /\ Len(chain) = 3 /\ chain[2] = 0 /\ chain[3] > 0
    /\ cur = 3 /\ requests = <<Url(2), Url(3)>>

\* C15: a response decoding call whose body was read returns Ok(value) when
\* the body decodes as the requested type, else Err(Error::Api) when the same
\* bytes decode as ApiError, else the Serde error of the requested type.
C15_DecodeFallback ==
    (call.fn \in {"deserialise_blocking", "deserialise"} /\ call.readok /\ ret # NoRet) =>
        IF DecodeAs(call.want, call.body).ok
        THEN ret = RetOk(DecodeAs(call.want, call.body).body)
        ELSE IF DecodeApiError(call.body).ok
        THEN ret = RetErr("Api", DecodeApiError(call.body).val)
        ELSE ret = RetErr("Serde", <<>>)

\* C16: Error::from keeps the kind of the error it wraps: an HTTP client
\* error gives Http, an I/O error Io, a JSON error Serde, a url-encoding error
\* UrlEncoded, a URL parse error Url, an ApiError Api; no other conversion
\* gives one of these variants; the ? of deserialise_blocking on a failed
\* body read gives Http.
C16_ErrorKindKept ==
    /\ (call.fn = "from" /\ ret # NoRet) =>
          /\ ret.kind = "Err"
          /\ call.src = "HttpError" <=> ret.err = "Http"
          /\ call.src = "IoError" <=> ret.err = "Io"
          /\ call.src = "SerdeError" <=> ret.err = "Serde"
          /\ call.src = "UrlEncodedError" <=> ret.err = "UrlEncoded"
          /\ call.src = "UrlError" <=> ret.err = "Url"
          /\ call.src = "ApiError" <=> ret.err = "Api"
    /\ (call.fn = "deserialise_blocking" /\ ~call.readok /\ ret # NoRet) =>
          ret = RetErr("Http", <<>>)

C16_Witness ==
    call.fn = "from" /\ call.src = "IoError" /\ ret = RetErr("Io", <<>>)

\* C17: the pull returns in the very iteration that reads the line which
\* makes the accumulated frame decodable, with that frame's event and an
\* empty accumulator; a pull that has returned an event has read no line
\* after the one that completed the frame; "event: filters_changed" alone
\* and an update's "data:" line need no blank line after them.
C17_NoLookahead ==
    /\ []((pc = "idle" /\ out # <<>>) =>
            /\ delivered # <<>> /\ Last(delivered).ok
            /\ attempt.res = Last(out)
            /\ Last(attempt.lines) = Trim(Last(delivered).text))
    /\ [](delivered = <<OkMsg("event: filters_changed\r\n")>> =>
            (lines = <<>> /\ out = <<OkEvent("FiltersChanged", <<>>)>>))
    /\ [][ \A t \in Messages :
             ( /\ delivered' = Append(delivered, OkMsg(t))
               /\ Trim(t) # "" /\ ~HasPrefix(Trim(t), ":")
               /\ make_event(Append(lines, Trim(t))).ok )
             => ( /\ pc' = "idle"
                  /\ out' = Append(out, make_event(Append(lines, Trim(t))))
                  /\ lines' = <<>> ) ]_vars

C17_Witness ==
    /\ delivered = <<OkMsg("event: update\n"), OkMsg("data: {\"id\":\"1\",\"uri\":\"u\"}\n")>>
    /\ pc = "idle" /\ lines = <<>>
    /\ out = <<OkEvent("Update", <<"1", "u">>)>>

\* a line that decodes as a JSON envelope
IsEnvelope(l) == DecodeMessage(l).ok
NotEnvelope(l) == ~IsEnvelope(l)

\* C18: when the accumulator has an "event:" line the result is the one of
\* its first "event:" and first "data:" line alone: the table entry when
\* there is a data line, else FiltersChanged or a missing-data failure; the
\* same accumulator without its JSON envelope lines gives the same result.
C18_DialectPrecedence ==
    (\E i \in 1..Len(attempt.lines) : IsEventLine(attempt.lines[i])) =>
        LET ls   == attempt.lines
            name == NameOf(ls[FindFirst(ls, "event:")])
            d    == FindFirst(ls, "data:")
        IN /\ d # 0 =>
                 /\ attempt.res.ok = TableA(name, PayloadOf(ls[d])).ok
                 /\ attempt.res.ok => attempt.res = TableA(name, PayloadOf(ls[d]))
           /\ d = 0 => attempt.res.ok = (name = "filters_changed")
           /\ (d = 0 /\ name \in PayloadEvents) => attempt.res.err # "Serde"
           /\ attempt.res = make_event(SelectSeq(ls, NotEnvelope))

C18_Witness ==
    /\ attempt.lines = <<"{\"event\":\"delete\"}", "event: filters_changed">>
    /\ attempt.res = OkEvent("FiltersChanged", <<>>)

\* the least element of a non-empty set of numbers
Earliest(S) == CHOOSE i \in S : \A j \in S : i <= j

\* the call a used the earliest "event:" line and the earliest "data:" line
\* of an accumulator that has several of either
FirstLineWins(a) ==
    LET ls  == a.lines
        evs == {i \in 1..Len(ls) : IsEventLine(ls[i])}
        dts == {i \in 1..Len(ls) : IsDataLine(ls[i])}
    IN (evs # {} /\ (Cardinality(evs) >= 2 \/ Cardinality(dts) >= 2)) =>
          IF dts = {}
          THEN a.res.ok = (NameOf(ls[Earliest(evs)]) = "filters_changed")
          ELSE LET t == TableA(NameOf(ls[Earliest(evs)]), PayloadOf(ls[Earliest(dts)])) IN
               /\ a.res.ok = t.ok
               /\ a.res.ok => a.res = t

\* C19: with several "data:" lines or several "event:" lines in the
\* accumulator, make_event (of event_stream.rs and of lib.rs) takes the name
\* from the earliest "event:" line and the payload from the earliest "data:"
\* line, trimmed, and ignores the later ones.
C19_FirstLineWins == FirstLineWins(attempt) /\ FirstLineWins(libAttempt)

C19_Witness ==
    /\ attempt.lines = <<"data:  42", "data: {\"id\":\"1\",\"uri\":\"u\"}", "event:delete">>
    /\ attempt.res = OkEvent("Delete", <<"42">>)

\* the call a passed the payload of a delete frame through unchanged
DeleteVerbatim(a) ==
    LET ls  == a.lines
        evs == {i \in 1..Len(ls) : IsEventLine(ls[i])}
        dts == {i \in 1..Len(ls) : IsDataLine(ls[i])}
    IN /\ (evs # {} /\ dts # {} /\ NameOf(ls[Earliest(evs)]) = "delete") =>
             a.res = OkEvent("Delete", <<PayloadOf(ls[Earliest(dts)])>>)
       /\ ls = <<"event:delete", "data:">> => a.res = OkEvent("Delete", <<"">>)
       /\ ls = <<"event:delete", "data: n/a">> => a.res = OkEvent("Delete", <<"n/a">>)
       /\ ls = <<"event:delete", "data: {\"id\":\"1\",\"uri\":\"u\"}">> =>
             a.res = OkEvent("Delete", <<"{\"id\":\"1\",\"uri\":\"u\"}">>)

\* C20: a delete frame with a payload yields Event::Delete carrying exactly
\* the payload text, whatever it is (empty, not JSON, a JSON object): in
\* dialect A the trimmed text after "data:" (both make_event functions), in
\* dialect B the payload string of the envelope.
C20_DeleteVerbatim ==
    /\ DeleteVerbatim(attempt)
    /\ DeleteVerbatim(libAttempt)
    /\ ( /\ attempt.lines # <<>>
         /\ \A i \in 1..Len(attempt.lines) : ~IsEventLine(attempt.lines[i])
         /\ DecodeMessage(attempt.lines[1]).ok
         /\ DecodeMessage(attempt.lines[1]).event = "delete"
         /\ DecodeMessage(attempt.lines[1]).payload.some )
       => attempt.res = OkEvent("Delete", <<DecodeMessage(attempt.lines[1]).payload.val>>)
    /\ attempt.lines = <<"{\"payload\":\"\\\"7\\\"\", \"event\":\"delete\"}">> =>
          attempt.res = OkEvent("Delete", <<"\"7\"">>)

C20_Witness ==
    /\ attempt.lines = <<"event:delete", "data:">>
    /\ attempt.res = OkEvent("Delete", <<"">>)

\* C21: for both readers the accumulator is empty between pulls (so after
\* every emitted event) and at the start of a pull, and make_event is only
\* ever called on lines accumulated in the running pull.
C21_AccumulatorPerPull ==
    /\ [](pc \in {"idle", "lib_idle"} => lines = <<>>)
    /\ [][ /\ (pc \in {"idle", "lib_idle"} /\ pc' \in {"loop", "lib_loop"}) => lines' = <<>>
           /\ out' # out => lines' = <<>>
           /\ attempt' # attempt =>
                 ( /\ pc = "loop" /\ delivered' # delivered
                   /\ attempt'.lines = Append(lines, Trim(Last(delivered').text)) )
           /\ libAttempt' # libAttempt => (pc = "lib_loop" /\ libAttempt'.lines = lines) ]_vars

C21_Witness ==
    /\ pc = "loop" /\ Len(out) = 1 /\ Len(delivered) = 3
    /\ out[1].type = "FiltersChanged"
    /\ lines = <<"event: update">> /\ attempt.lines = lines

\* C26: while a pull runs the accumulator only grows: a step that emits no
\* event leaves every accumulated line in place, a failed make_event leaves
\* the accumulator exactly as make_event saw it, and each make_event of the
\* event_stream.rs reader sees the accumulator followed by the new line.
C26_AccumulatorGrows ==
    [][ /\ out' = out => IsPrefix(lines, lines')
        /\ (attempt' # attempt /\ ~attempt'.res.ok) => lines' = attempt'.lines
        /\ (libAttempt' # libAttempt /\ ~libAttempt'.res.ok) =>
              (lines' = libAttempt'.lines /\ lines' = lines)
        /\ (pc = "loop" /\ delivered' # delivered /\ IsContent(Last(delivered'))
              /\ Last(delivered').ok) =>
              attempt'.lines = Append(lines, Trim(Last(delivered').text)) ]_vars

C26_Witness ==
    /\ pc = "lib_loop" /\ out = <<>>
    /\ ~libAttempt.res.ok /\ libAttempt.lines = <<"event: update">>
    /\ Len(lines) = 2 /\ lines[1] = "event: update" /\ IsDataLine(lines[2])

\* the events after the first i delivered messages, by event_stream.rs
EmittedBy(i) == Len(Run(SubSeq(delivered, 1, i), <<>>, <<>>).out)
\* the i-th delivered message made next() return an event
EmitsAt(i) == EmittedBy(i) > EmittedBy(i - 1)

\* C27: in the event_stream.rs reader the payload of an emitted notification,
\* update or delete is never a "data:" line that directly followed an
\* "event:" line whose event had already been emitted.
C27_NoStalePayload ==
    pc \in {"idle", "loop"} =>
        ~ \E p \in 1..Len(delivered), q \in 1..Len(delivered) :
            /\ p + 1 < q
            /\ delivered[p].ok /\ IsEventLine(Trim(delivered[p].text)) /\ EmitsAt(p)
            /\ delivered[p + 1].ok /\ IsDataLine(Trim(delivered[p + 1].text))
            /\ \A i \in (p + 1)..(q - 1) : ~EmitsAt(i)
            /\ EmitsAt(q)
            /\ EmittedBy(q) <= Len(out)
            /\ out[EmittedBy(q)].type \in {"Notification", "Update", "Delete"}

\* the lib.rs reader run on msgs from accumulator ls with evs emitted
RECURSIVE LibRun(_, _, _)
LibRun(msgs, ls, evs) ==
    IF msgs = <<>> THEN [lines |-> ls, out |-> evs]
    ELSE LET b == LibLoopBody(ls, Head(msgs)) IN
         LibRun(Tail(msgs), b.lines, IF b.ret THEN Append(evs, b.val) ELSE evs)

IsBlankMsg(m) == m.ok /\ Trim(m.text) = ""
IsEventMsg(m) ==
    m.ok /\ IsEventLine(Trim(m.text)) /\ NameOf(Trim(m.text)) \in KnownEvents
\* m is a data line whose payload is valid for the name of event line e
IsDataMsgFor(m, e) ==
    /\ m.ok /\ IsDataLine(Trim(m.text))
    /\ TableA(NameOf(Trim(e.text)), PayloadOf(Trim(m.text))).ok

\* msgs is a sequence of frames: a known event line, a valid data line exactly
\* when the name takes a payload, a blank line
RECURSIVE WellFormed(_)
WellFormed(msgs) ==
    \/ msgs = <<>>
    \/ /\ Len(msgs) >= 2 /\ IsEventMsg(msgs[1])
       /\ IF NameOf(Trim(msgs[1].text)) \in PayloadEvents
          THEN /\ Len(msgs) >= 3
               /\ IsDataMsgFor(msgs[2], msgs[1])
               /\ IsBlankMsg(msgs[3])
               /\ WellFormed(SubSeq(msgs, 4, Len(msgs)))
          ELSE /\ IsBlankMsg(msgs[2])
               /\ WellFormed(SubSeq(msgs, 3, Len(msgs)))

\* C28: on an input of well-formed frames the reader of event_stream.rs and
\* the reader of lib.rs emit the same events, and the running reader has
\* emitted exactly these.
C28_ReadersAgree ==
    WellFormed(delivered) =>
        /\ Run(delivered, <<>>, <<>>).out = LibRun(delivered, <<>>, <<>>).out
        /\ out = LibRun(delivered, <<>>, <<>>).out

C28_Witness ==
    /\ pc = "lib_idle" /\ Len(delivered) = 3 /\ WellFormed(delivered)
    /\ Len(out) = 1 /\ out[1].type = "Delete"

\* C29: the lib.rs reader emits an event only in a step in which the source
\* delivers an empty line while the accumulator is non-empty and holds an
\* "event:" line.
C29_BlankLineOnly ==
    [][ (pc = "lib_loop" /\ out' # out) =>
            /\ delivered' # delivered
            /\ IsBlankMsg(Last(delivered'))
            /\ lines # <<>>
            /\ \E i \in DOMAIN lines : IsEventLine(lines[i]) ]_vars

\* body is a JSON object whose "error" and "error_description" members, where
\* present, occur once and are a string or null
ApiShaped(body) ==
    LET o == JsonObject(body) IN
    /\ o.ok
    /\ \A i \in 1..Len(o.fields) :
          o.fields[i].key \in {"error", "error_description"} =>
              /\ o.fields[i].isnull \/ o.fields[i].isstr
              /\ \A j \in 1..Len(o.fields) : o.fields[j].key = o.fields[i].key => j = i

C22_StatusBeforeDecode ==
    (call.fn \in CheckedFns /\ ret # NoRet) =>
        /\ (call.prepared /\ call.sendok /\ call.status \in 400..499) =>
              (ret = RetErr("Client", <<call.status>>) /\ tapped = "")
        /\ (call.prepared /\ call.sendok /\ call.status \in 500..599) =>
              (ret = RetErr("Server", <<call.status>>) /\ tapped = "")
        /\ (ret.kind = "Err" /\ ret.err \in {"Api", "Serde"}) =>
              (call.status \notin 400..599 /\ call.prepared /\ call.sendok)

C22_Witness ==
    /\ call.fn = "media" /\ call.status = 499 /\ call.body = "{\"error\":\"denied\"}"
    /\ ret = RetErr("Client", <<499>>)

IsDataOp(o) == o[1] = "data"
IsClientOp(o) == o[1] = "client"

\* C23: build returns Err(MissingField) exactly when data() was never called
\* on the builder, and otherwise Ok with the data supplied last and the client
\* supplied last, or a fresh default client; Mastodon::from(data) returns the
\* client built from data and never panics.
C23_BuildNeedsData ==
    /\ (call.fn = "builder" /\ ret # NoRet) =>
          LET ds == SelectSeq(call.ops, IsDataOp)
              cs == SelectSeq(call.ops, IsClientOp)
          IN IF ds = <<>> THEN ret.kind = "Err" /\ ret.err = "MissingField"
             ELSE ret = RetOk(<<[client |-> IF cs = <<>> THEN "Client::new()" ELSE Last(cs)[2],
                                 sender |-> call.sender,
                                 data |-> Last(ds)[2]]>>)
    /\ (call.fn = "from_data" /\ ret # NoRet) =>
          ret = RetOk(<<[client |-> "Client::new()", sender |-> call.sender,
                         data |-> call.data]>>)

C23_Witness ==
    /\ call.fn = "builder" /\ call.ops = <<<<"data", "d1">>, <<"data", "d2">>>>
    /\ ret.kind = "Ok" /\ ret.val[1].data = "d2" /\ ret.val[1].client = "Client::new()"

RECURSIVE JoinIds(_)
\* id[]=<id1>&id[]=<id2>... in input order
JoinIds(ids) ==
    IF ids = <<>> THEN ""
    ELSE IF Len(ids) = 1 THEN "id[]=" \o ids[1]
    ELSE "id[]=" \o ids[1] \o "&" \o JoinIds(Tail(ids))

\* C25: relationships(ids) requests the route /api/v1/accounts/relationships?
\* followed by id=<id> for one id and by id[]=<id1>&id[]=<id2>... otherwise;
\* what is cut off the end is only ever a trailing "&".
C25_RelationshipsUrl ==
    lastOp = "relationships" =>
        Last(requests) = Route("/api/v1/accounts/relationships?")
                            \o (IF Len(call.ids) = 1 THEN "id=" \o call.ids[1]
                                ELSE JoinIds(call.ids))

====
